---- MODULE Spec2Model ----
(***************************************************************************)
(* A model of the LandcLogFace logging facade: the provider registry       *)
(* (log_factory.go), the four built-in backends (console, std, zap,        *)
(* logrus) with their thresholds, bound-field slices and sinks, and the    *)
(* process-wide default logger, and the lazy construction of the registry  *)
(* and of that logger by concurrent callers.                               *)
(***************************************************************************)
EXTENDS Integers, Sequences, FiniteSets, TLC

VARIABLES
    providers,        \* LogFactory.providers: map name -> LoggerProvider
    defaultProvider,  \* LogFactory.defaultProvider
    handles,          \* the Logger structs on the heap: id -> struct
    arrays,           \* the backing arrays of the []Field slices: id -> cells
    sinks,            \* the wrapped *log.Logger / *zap core / *logrus.Logger: id -> state
    globalLogger,     \* package variable globalLogger (a handle id, or NilLogger; where its
                      \* two words are stored and loaded one by one, the pair of them)
    loggerOnce,       \* package variable loggerOnce: TRUE once Do has run
    factory,          \* package variable factory: the LogFactory allocated last, or NilFactory
    factoryOnce,      \* package variable factoryOnce: TRUE once Do has run
    onceMutex,        \* the mutexes of factoryOnce and loggerOnce: the goroutine holding each
    mu,               \* LogFactory.mu: the goroutine holding the write lock, and the readers
    threads,          \* the goroutines of the process: where each one is in its call
    proc,             \* "running", or "exited" after os.Exit(1)
    ret               \* the last call made and what it returned

vars == <<providers, defaultProvider, handles, arrays, sinks,
          globalLogger, loggerOnce, factory, factoryOnce, onceMutex, mu,
          threads, proc, ret>>

registryVars == <<providers, defaultProvider>>
heapVars     == <<handles, arrays, sinks>>
lazyVars     == <<factory, factoryOnce, onceMutex, mu, threads>>
globalVars   == <<globalLogger, loggerOnce, lazyVars>>

-----------------------------------------------------------------------------
(* Bounds *)

MaxLevelHandles == 2      \* handles in the level-gating specification
MaxEnrichHandles == 3     \* handles in the enrichment specification
MaxFieldHandles == 5      \* handles in the enrichment-chain specification
MaxGlobalHandles == 3     \* handles in the global-accessor specification

-----------------------------------------------------------------------------
(* logger.go: LogLevel *)

DebugLevel == 0
InfoLevel  == 1
WarnLevel  == 2
ErrorLevel == 3
FatalLevel == 4
PanicLevel == 5

Levels == DebugLevel..PanicLevel

(* go.uber.org/zap/zapcore levels, as named in NewZapLogger's switch *)
ZapDebugLevel  == -1
ZapInfoLevel   == 0
ZapWarnLevel   == 1
ZapErrorLevel  == 2
ZapPanicLevel  == 4
ZapFatalLevel  == 5

(* github.com/sirupsen/logrus levels, as named in NewLogrusLogger's switch *)
LogrusPanicLevel == 0
LogrusFatalLevel == 1
LogrusErrorLevel == 2
LogrusWarnLevel  == 3
LogrusInfoLevel  == 4
LogrusDebugLevel == 5

NoLibLevel == 99    \* console and std sinks (*log.Logger) have no level

-----------------------------------------------------------------------------
(* logger.go: LoggerOptions and the Option mutators *)

WithLevel(level)     == [set |-> "Level", val |-> level]
WithFormat(format)   == [set |-> "Format", val |-> format]
WithOutputPath(path) == [set |-> "OutputPath", val |-> path]

ApplyOption(opt, options) ==
    CASE opt.set = "Level"      -> [options EXCEPT !.Level = opt.val]
      [] opt.set = "Format"     -> [options EXCEPT !.Format = opt.val]
      [] opt.set = "OutputPath" -> [options EXCEPT !.OutputPath = opt.val]

(* A constructor loop in which the first option to set a field wins *)
RECURSIVE ApplyOptions_FirstWins(_, _)
ApplyOptions_FirstWins(opts, options) ==
    IF opts = <<>> THEN options
    ELSE ApplyOption(Head(opts), ApplyOptions_FirstWins(Tail(opts), options))

RECURSIVE ApplyOptions(_, _)
ApplyOptions(opts, options) ==
    IF opts = <<>> THEN options
    ELSE ApplyOptions(Tail(opts), ApplyOption(Head(opts), options))

DefaultOptions(format) ==
    [Level |-> InfoLevel, Format |-> format, OutputPath |-> "stdout"]

-----------------------------------------------------------------------------
(* The []Field slice header: backing array id, len, cap.                   *)
(* make([]Field, 0) has no backing storage.                                *)

NoArray == 0
EmptySlice == [arr |-> NoArray, len |-> 0, cap |-> 0]
BackgroundCtx == "background"
NoSink == 0

-----------------------------------------------------------------------------
(* The backend constructors.  Each returns the new struct (h), the state   *)
(* of the sink it opened (s: the level of the wrapped library logger, the  *)
(* stream it writes to, the encoding of its lines) and the LoggerOptions   *)
(* it arrived at (o).  openOK is the environment's answer to opening the   *)
(* output path.                                                            *)

Struct(backend, name, level) ==
    [backend |-> backend, level |-> level, fields |-> EmptySlice,
     ctx |-> BackgroundCtx, name |-> name, logger |-> NoSink, zfields |-> <<>>]

OpenOutput(path, openOK) ==
    IF path # "stdout" /\ openOK THEN path ELSE "stdout"

NewConsoleLogger(name, opts, openOK) ==
    LET options == ApplyOptions(opts, DefaultOptions("text"))
    IN  [h |-> Struct("console", name, options.Level),
         s |-> [lib |-> NoLibLevel, out |-> OpenOutput(options.OutputPath, openOK),
                format |-> "text"],
         o |-> options]

NewStdLogger(name, opts, openOK) ==
    LET options == ApplyOptions(opts, DefaultOptions("text"))
    IN  [h |-> Struct("std", name, options.Level),
         s |-> [lib |-> NoLibLevel, out |-> OpenOutput(options.OutputPath, openOK),
                format |-> "text"],
         o |-> options]

ToZapLevel(level) ==
    CASE level = DebugLevel -> ZapDebugLevel
      [] level = InfoLevel  -> ZapInfoLevel
      [] level = WarnLevel  -> ZapWarnLevel
      [] level = ErrorLevel -> ZapErrorLevel
      [] level = FatalLevel -> ZapFatalLevel
      [] level = PanicLevel -> ZapPanicLevel
      [] OTHER              -> ZapInfoLevel

ZapEncodings == {"json", "console"}

(* zapConfig.Build() fails on an unknown encoding or an output path that   *)
(* cannot be opened; zap.NewProduction() is an Info-level JSON logger      *)
(* writing to stderr.                                                      *)
NewZapLogger(name, opts, openOK) ==
    LET options == ApplyOptions(opts, DefaultOptions("json"))
        built   == /\ options.Format \in ZapEncodings
                   /\ (options.OutputPath = "stdout" \/ openOK)
    IN  [h |-> Struct("zap", name, options.Level),
         s |-> IF built
               THEN [lib |-> ToZapLevel(options.Level), out |-> options.OutputPath,
                     format |-> options.Format]
               ELSE [lib |-> ZapInfoLevel, out |-> "stderr", format |-> "json"],
         o |-> options]

ToLogrusLevel(level) ==
    CASE level = DebugLevel -> LogrusDebugLevel
      [] level = InfoLevel  -> LogrusInfoLevel
      [] level = WarnLevel  -> LogrusWarnLevel
      [] level = ErrorLevel -> LogrusErrorLevel
      [] level = FatalLevel -> LogrusFatalLevel
      [] level = PanicLevel -> LogrusPanicLevel
      [] OTHER              -> LogrusInfoLevel

NewLogrusLogger(name, opts, openOK) ==
    LET options == ApplyOptions(opts, DefaultOptions("text"))
    IN  [h |-> Struct("logrus", name, options.Level),
         s |-> [lib |-> ToLogrusLevel(options.Level),
                out |-> OpenOutput(options.OutputPath, openOK),
                format |-> IF options.Format = "json" THEN "json" ELSE "text"],
         o |-> options]

(* example.go: CustomLogger, the backend of a caller-registered provider *)
NewCustomLogger(name) ==
    [h |-> Struct("custom", name, InfoLevel),
     s |-> [lib |-> NoLibLevel, out |-> "stdout", format |-> "text"],
     o |-> DefaultOptions("text")]

-----------------------------------------------------------------------------
(* Configuration maps: a partial function from keys to dynamically typed   *)
(* values.  A value carries its Go type (t) and its payload (s or n).      *)

Str(s)   == [t |-> "string", s |-> s, n |-> 0]
Lvl(n)   == [t |-> "LogLevel", s |-> "", n |-> n]
IntV(n)  == [t |-> "int", s |-> "", n |-> n]
NilMap   == <<>>

HasString(config, key) == key \in DOMAIN config /\ config[key].t = "string"
HasLevel(config, key)  == key \in DOMAIN config /\ config[key].t = "LogLevel"

(* A CreateWithConfig that leaves `var level LogLevel` at its zero value   *)
(* when the map has no level                                               *)
ConfigOptions_ZeroLevel(config, defaultFormat) ==
    LET level == IF HasLevel(config, "level") THEN config["level"].n ELSE DebugLevel
        format == IF HasString(config, "format") THEN config["format"].s
                  ELSE defaultFormat
        outputPath == IF HasString(config, "outputPath") THEN config["outputPath"].s
                      ELSE "stdout"
    IN  <<WithLevel(level), WithFormat(format), WithOutputPath(outputPath)>>

(* The body shared by the four built-in CreateWithConfig methods *)
ConfigOptions(config, defaultFormat) ==
    LET level == IF HasLevel(config, "level") THEN config["level"].n ELSE InfoLevel
        format == IF HasString(config, "format") THEN config["format"].s
                  ELSE defaultFormat
        outputPath == IF HasString(config, "outputPath") THEN config["outputPath"].s
                      ELSE "stdout"
    IN  <<WithLevel(level), WithFormat(format), WithOutputPath(outputPath)>>

-----------------------------------------------------------------------------
(* LoggerProvider values.  A provider is named by its type; NilProvider is *)
(* the nil interface value, which RegisterProvider accepts.                *)

NilProvider == "nil"
BuiltinProviders == {"console", "zap", "logrus", "std"}
CustomProvider == "custom"
ProviderValues == BuiltinProviders \cup {CustomProvider, NilProvider}

NoLogger == [h |-> Struct("none", "", InfoLevel),
             s |-> [lib |-> NoLibLevel, out |-> "none", format |-> "none"],
             o |-> DefaultOptions("none")]

(* What a creation call did: it returned the logger that provider p built, *)
(* or it panicked calling a method on p.                                    *)
Returned(p, l) == [outcome |-> "logger", via |-> p, logger |-> l]
Panicked(p)    == [outcome |-> "panic", via |-> p, logger |-> NoLogger]

(* provider.Create(name): a method call on the interface value *)
ProviderCreate(p, name, openOK) ==
    CASE p = "console" -> Returned(p, NewConsoleLogger(name, <<>>, openOK))
      [] p = "std"     -> Returned(p, NewStdLogger(name, <<>>, openOK))
      [] p = "zap"     -> Returned(p, NewZapLogger(name, <<>>, openOK))
      [] p = "logrus"  -> Returned(p, NewLogrusLogger(name, <<>>, openOK))
      [] p = CustomProvider -> Returned(p, NewCustomLogger(name))
      [] p = NilProvider    -> Panicked(p)

(* provider.CreateWithConfig(name, config) *)
ProviderCreateWithConfig(p, name, config, openOK) ==
    CASE p = "console" ->
            Returned(p, NewConsoleLogger(name, ConfigOptions(config, "text"), openOK))
      [] p = "std"     ->
            Returned(p, NewStdLogger(name, ConfigOptions(config, "text"), openOK))
      [] p = "zap"     ->
            Returned(p, NewZapLogger(name, ConfigOptions(config, "json"), openOK))
      [] p = "logrus"  ->
            Returned(p, NewLogrusLogger(name, ConfigOptions(config, "text"), openOK))
      [] p = CustomProvider -> Returned(p, NewCustomLogger(name))
      [] p = NilProvider    -> Panicked(p)

HardCoded == "hard-coded console"

-----------------------------------------------------------------------------
(* log_factory.go: LogFactory *)

ProviderNames == {"console", "zap", "logrus", "std", "alt"}
RegisterInputs == {CustomProvider, NilProvider}
LoggerNames == {"svc"}

(* NewLogFactory, then the body of factoryOnce.Do in GetLogFactory *)
NewLogFactory == [providers |-> <<>>, defaultProvider |-> "console"]

GetLogFactory ==
    [providers |-> [n \in BuiltinProviders |-> n], defaultProvider |-> "console"]

(* A registration that inserts only when the name is free *)
RegisterProvider_KeepsExisting(name, provider) ==
    [n \in (DOMAIN providers) \cup {name} |->
        IF n \in DOMAIN providers THEN providers[n] ELSE provider]

RegisterProvider(name, provider) ==
    [n \in (DOMAIN providers) \cup {name} |->
        IF n = name THEN provider ELSE providers[n]]

UnregisterProvider(name) ==
    [n \in (DOMAIN providers) \ {name} |-> providers[n]]

SetDefaultProvider(name) == name

GetDefaultProvider == defaultProvider

GetProvider(name) ==
    IF name \in DOMAIN providers THEN <<providers[name], TRUE>>
    ELSE <<NilProvider, FALSE>>

(* A resolution that skips the requested name and goes to the default *)
CreateLoggerWithProvider_DefaultOnly(name, providerName, openOK) ==
    IF defaultProvider \in DOMAIN providers
    THEN ProviderCreate(providers[defaultProvider], name, openOK)
    ELSE Returned(HardCoded, NewConsoleLogger(name, <<>>, openOK))

CreateLoggerWithProvider(name, providerName, openOK) ==
    IF providerName \in DOMAIN providers
    THEN ProviderCreate(providers[providerName], name, openOK)
    ELSE IF defaultProvider \in DOMAIN providers
         THEN ProviderCreate(providers[defaultProvider], name, openOK)
         ELSE Returned(HardCoded, NewConsoleLogger(name, <<>>, openOK))

(* A CreateLogger that resolves the initial default name, not the current one *)
CreateLogger_InitialDefault(name, openOK) ==
    CreateLoggerWithProvider(name, NewLogFactory.defaultProvider, openOK)

CreateLogger(name, openOK) ==
    CreateLoggerWithProvider(name, defaultProvider, openOK)

CreateLoggerWithConfig(name, config, openOK) ==
    LET providerName == IF HasString(config, "provider") THEN config["provider"].s
                        ELSE defaultProvider
    IN  IF providerName \in DOMAIN providers
        THEN ProviderCreateWithConfig(providers[providerName], name, config, openOK)
        ELSE IF defaultProvider \in DOMAIN providers
             THEN ProviderCreateWithConfig(providers[defaultProvider], name, config, openOK)
             ELSE Returned(HardCoded, NewConsoleLogger(name, <<>>, openOK))

(* The configuration maps the callers pass *)
Configs ==
    { NilMap,
      [k \in {"provider"} |-> Str("zap")],
      [k \in {"provider"} |-> Str("alt")],
      [k \in {"provider"} |-> IntV(7)],
      [k \in {"provider", "level"} |->
          IF k = "provider" THEN Str("logrus") ELSE Lvl(DebugLevel)],
      [k \in {"level", "outputPath"} |->
          IF k = "level" THEN Str("debug") ELSE Str("app.log")],
      [k \in {"format", "outputPath"} |->
          IF k = "format" THEN Str("text") ELSE IntV(1)] }

(* The calls on the registry, one action per method *)

CallRegisterProvider(name, provider) ==
    /\ providers' = RegisterProvider(name, provider)
    /\ ret' = [op |-> "RegisterProvider", name |-> name, provider |-> provider]
    /\ UNCHANGED <<defaultProvider, heapVars, globalVars, proc>>

CallUnregisterProvider(name) ==
    /\ providers' = UnregisterProvider(name)
    /\ ret' = [op |-> "UnregisterProvider", name |-> name]
    /\ UNCHANGED <<defaultProvider, heapVars, globalVars, proc>>

CallSetDefaultProvider(name) ==
    /\ defaultProvider' = SetDefaultProvider(name)
    /\ ret' = [op |-> "SetDefaultProvider", name |-> name]
    /\ UNCHANGED <<providers, heapVars, globalVars, proc>>

CallGetDefaultProvider ==
    /\ ret' = [op |-> "GetDefaultProvider", res |-> GetDefaultProvider]
    /\ UNCHANGED <<registryVars, heapVars, globalVars, proc>>

CallGetProvider(name) ==
    /\ ret' = [op |-> "GetProvider", name |-> name, res |-> GetProvider(name)]
    /\ UNCHANGED <<registryVars, heapVars, globalVars, proc>>

CallCreateLogger(name, openOK) ==
    /\ ret' = [op |-> "CreateLogger", name |-> name, res |-> CreateLogger(name, openOK)]
    /\ UNCHANGED <<registryVars, heapVars, globalVars, proc>>

CallCreateLoggerWithProvider(name, providerName, openOK) ==
    /\ ret' = [op |-> "CreateLoggerWithProvider", name |-> name,
               providerName |-> providerName,
               res |-> CreateLoggerWithProvider(name, providerName, openOK)]
    /\ UNCHANGED <<registryVars, heapVars, globalVars, proc>>

CallCreateLoggerWithConfig(name, config, openOK) ==
    /\ ret' = [op |-> "CreateLoggerWithConfig", name |-> name, config |-> config,
               res |-> CreateLoggerWithConfig(name, config, openOK)]
    /\ UNCHANGED <<registryVars, heapVars, globalVars, proc>>

NoHeap == <<>>
NilLogger == 0
NilFactory == 0
NoThread == 0

(* sync.RWMutex: no writer and no readers *)
Unlocked == [writer |-> NoThread, readers |-> {}]

(* The lazy-construction variables of a process whose only goroutine has   *)
(* called GetLogFactory(): one LogFactory, factoryOnce done, no mutex held *)
FactoryBuilt ==
    /\ factory = 1
    /\ factoryOnce = TRUE
    /\ onceMutex = [factory |-> NoThread, logger |-> NoThread]
    /\ mu = Unlocked
    /\ threads = <<>>

(* GetLogFactory() called by the process's one goroutine: factoryOnce.Do   *)
(* runs its body when the Once is not done yet, and the package variable   *)
(* is returned.                                                            *)

(* A GetLogFactory with no Once around the construction *)
FactoryOnceDo_Rebuilds ==
    [factory |-> factory + 1,
     providers |-> GetLogFactory.providers,
     defaultProvider |-> GetLogFactory.defaultProvider]

FactoryOnceDo ==
    IF factoryOnce
    THEN [factory |-> factory, providers |-> providers,
          defaultProvider |-> defaultProvider]
    ELSE [factory |-> factory + 1,
          providers |-> GetLogFactory.providers,
          defaultProvider |-> GetLogFactory.defaultProvider]

CallGetLogFactory ==
    /\ factory' = FactoryOnceDo.factory
    /\ providers' = FactoryOnceDo.providers
    /\ defaultProvider' = FactoryOnceDo.defaultProvider
    /\ factoryOnce' = TRUE
    /\ ret' = [op |-> "GetLogFactory", res |-> FactoryOnceDo.factory]
    /\ UNCHANGED <<heapVars, globalLogger, loggerOnce, onceMutex, mu, threads, proc>>

InitRegistry ==
    /\ providers = GetLogFactory.providers
    /\ defaultProvider = GetLogFactory.defaultProvider
    /\ handles = NoHeap
    /\ arrays = NoHeap
    /\ sinks = NoHeap
    /\ globalLogger = NilLogger
    /\ loggerOnce = FALSE
    /\ FactoryBuilt
    /\ proc = "running"
    /\ ret = [op |-> "GetLogFactory"]

NextRegistry ==
    \/ \E name \in ProviderNames, provider \in RegisterInputs :
          CallRegisterProvider(name, provider)
    \/ \E name \in ProviderNames : CallUnregisterProvider(name)
    \/ \E name \in ProviderNames : CallSetDefaultProvider(name)
    \/ CallGetDefaultProvider
    \/ \E name \in ProviderNames : CallGetProvider(name)
    \/ \E name \in LoggerNames, openOK \in BOOLEAN : CallCreateLogger(name, openOK)
    \/ \E name \in LoggerNames, providerName \in ProviderNames, openOK \in BOOLEAN :
          CallCreateLoggerWithProvider(name, providerName, openOK)
    \/ \E name \in LoggerNames, config \in Configs, openOK \in BOOLEAN :
          CallCreateLoggerWithConfig(name, config, openOK)
    \/ CallGetLogFactory

SpecRegistry == InitRegistry /\ [][NextRegistry]_vars

-----------------------------------------------------------------------------
(* The Logger structs, their []Field slices and their sinks.               *)
(* handles, arrays and sinks are heaps: sequences indexed by address.      *)

Field(key, value) == [Key |-> key, Value |-> value]
ZeroField == Field("", "")

(* The elements of a slice: the first len cells of its backing array *)
SliceElems(s, heap) ==
    IF s.len = 0 THEN <<>> ELSE SubSeq(heap[s.arr], 1, s.len)

(* runtime growslice for a small slice: the needed length when it exceeds  *)
(* twice the old capacity, otherwise twice the old capacity                *)
GrowCap(oldCap, newLen) ==
    IF newLen > oldCap + oldCap THEN newLen ELSE oldCap + oldCap

(* append(s, fs...): the slice it returns and the heap it leaves.  With    *)
(* room in the backing array the new elements are written in place, into   *)
(* cells that other slices over the same array may cover; without room a   *)
(* new array is allocated and the old elements are copied.                 *)
AppendSlice(s, fs, heap) ==
    LET newLen == s.len + Len(fs)
    IN  IF Len(fs) = 0 THEN [slice |-> s, heap |-> heap, inPlace |-> TRUE]
        ELSE IF newLen <= s.cap
        THEN [slice |-> [s EXCEPT !.len = newLen],
              heap |-> [heap EXCEPT ![s.arr] =
                          [i \in 1..s.cap |->
                              IF i > s.len /\ i <= newLen THEN fs[i - s.len]
                              ELSE @[i]]],
              inPlace |-> TRUE]
        ELSE LET newCap == GrowCap(s.cap, newLen)
                 cells  == [i \in 1..newCap |->
                              IF i <= s.len THEN heap[s.arr][i]
                              ELSE IF i <= newLen THEN fs[i - s.len]
                              ELSE ZeroField]
             IN  [slice |-> [arr |-> Len(heap) + 1, len |-> newLen, cap |-> newCap],
                  heap |-> Append(heap, cells),
                  inPlace |-> FALSE]

(* The bound fields of handle h *)
BoundFields(h) == SliceElems(handles[h].fields, arrays)

(* GetLevel *)
GetLevel(h) == handles[h].level

(* Allocating a constructed logger: the struct and its sink go on the heap *)
Allocate(l) ==
    /\ sinks' = Append(sinks, l.s)
    /\ handles' = Append(handles, [l.h EXCEPT !.logger = Len(sinks) + 1])

NewLogger(backend, name, opts, openOK) ==
    CASE backend = "console" -> NewConsoleLogger(name, opts, openOK)
      [] backend = "std"     -> NewStdLogger(name, opts, openOK)
      [] backend = "zap"     -> NewZapLogger(name, opts, openOK)
      [] backend = "logrus"  -> NewLogrusLogger(name, opts, openOK)

Backends == {"console", "std", "zap", "logrus"}

-----------------------------------------------------------------------------
(* SetLevel: every backend stores the threshold in the struct; logrus also *)
(* sets the level of the wrapped *logrus.Logger, zap leaves the level of   *)
(* the wrapped core as it was built.                                       *)

SetLevelSink(backend, level, sink) ==
    IF backend = "logrus" THEN [sink EXCEPT !.lib = ToLogrusLevel(level)] ELSE sink

(* A SetLevel that stores the level in every struct sharing the sink *)
CallSetLevel_Shared(h, level) ==
    /\ proc = "running"
    /\ handles' = [i \in DOMAIN handles |->
                      IF handles[i].logger = handles[h].logger
                      THEN [handles[i] EXCEPT !.level = level]
                      ELSE handles[i]]
    /\ sinks' = [sinks EXCEPT ![handles[h].logger] =
                    SetLevelSink(handles[h].backend, level, @)]
    /\ ret' = [op |-> "SetLevel", h |-> h, level |-> level]
    /\ UNCHANGED <<arrays, registryVars, globalVars, proc>>

CallSetLevel(h, level) ==
    /\ proc = "running"
    /\ handles' = [handles EXCEPT ![h].level = level]
    /\ sinks' = [sinks EXCEPT ![handles[h].logger] =
                    SetLevelSink(handles[h].backend, level, @)]
    /\ ret' = [op |-> "SetLevel", h |-> h, level |-> level]
    /\ UNCHANGED <<arrays, registryVars, globalVars, proc>>

-----------------------------------------------------------------------------
(* Enrichment: WithFields copies the struct and appends to the copy's      *)
(* slice; the zap adapter also binds every field of the new slice to a     *)
(* clone of the wrapped zap logger.                                        *)

WithFieldsStruct(c, slice, heap) ==
    IF c.backend = "zap"
    THEN [c EXCEPT !.fields = slice,
                   !.zfields = @ \o SliceElems(slice, heap)]
    ELSE [c EXCEPT !.fields = slice]

(* An enrichment that appends to the receiver's own slice header, with no  *)
(* copy of the struct before the append                                    *)
WithFields_OnReceiver(h, fs) ==
    LET app == AppendSlice(handles[h].fields, fs, arrays)
        new == WithFieldsStruct(handles[h], app.slice, app.heap)
    IN  /\ arrays' = app.heap
        /\ handles' = Append([handles EXCEPT ![h] = new], new)
        /\ UNCHANGED sinks

WithFields(h, fs) ==
    LET app == AppendSlice(handles[h].fields, fs, arrays)
    IN  /\ arrays' = app.heap
        /\ handles' = Append(handles, WithFieldsStruct(handles[h], app.slice, app.heap))
        /\ UNCHANGED sinks

WithContextStruct(c, ctx) == [c EXCEPT !.ctx = ctx]

WithContext(h, ctx) ==
    /\ handles' = Append(handles, WithContextStruct(handles[h], ctx))
    /\ UNCHANGED <<arrays, sinks>>

CallWithFields(h, fs) ==
    /\ proc = "running"
    /\ WithFields(h, fs)
    /\ ret' = [op |-> "WithFields", h |-> h, new |-> Len(handles) + 1, fields |-> fs]
    /\ UNCHANGED <<registryVars, globalVars, proc>>

CallWithField(h, key, value) ==
    /\ proc = "running"
    /\ WithFields(h, <<Field(key, value)>>)
    /\ ret' = [op |-> "WithField", h |-> h, new |-> Len(handles) + 1,
               fields |-> <<Field(key, value)>>]
    /\ UNCHANGED <<registryVars, globalVars, proc>>

CallWithError(h, err) ==
    /\ proc = "running"
    /\ WithFields(h, <<Field("error", err)>>)
    /\ ret' = [op |-> "WithError", h |-> h, new |-> Len(handles) + 1,
               fields |-> <<Field("error", err)>>]
    /\ UNCHANGED <<registryVars, globalVars, proc>>

CallWithTime(h, tm) ==
    /\ proc = "running"
    /\ WithFields(h, <<Field("time", tm)>>)
    /\ ret' = [op |-> "WithTime", h |-> h, new |-> Len(handles) + 1,
               fields |-> <<Field("time", tm)>>]
    /\ UNCHANGED <<registryVars, globalVars, proc>>

CallWithContext(h, ctx) ==
    /\ proc = "running"
    /\ WithContext(h, ctx)
    /\ ret' = [op |-> "WithContext", h |-> h, new |-> Len(handles) + 1, fields |-> <<>>]
    /\ UNCHANGED <<registryVars, globalVars, proc>>

-----------------------------------------------------------------------------
(* Emission.  An emission call at `level` on a struct yields: whether a    *)
(* record reached the sink, the fields of that record, the signal the call *)
(* ended with ("none": it returned; "exit": the process terminated;        *)
(* "panic": a panic was raised), and the heap it leaves.                   *)

Outcome(written, record, signal, heap) ==
    [written |-> written, record |-> record, signal |-> signal, heap |-> heap]

Suppressed(heap) == Outcome(FALSE, <<>>, "none", heap)

SignalOf(level) ==
    IF level = FatalLevel THEN "exit"
    ELSE IF level = PanicLevel THEN "panic" ELSE "none"

(* A console adapter whose Fatal prints and returns, with no os.Exit(1) *)
ConsoleEmit_FatalReturns(c, level, formatted, fs, heap) ==
    IF c.level <= level
    THEN LET app == AppendSlice(c.fields, IF formatted THEN <<>> ELSE fs, heap)
         IN  Outcome(TRUE, SliceElems(app.slice, app.heap),
                     IF level = PanicLevel THEN "panic" ELSE "none",
                     IF app.inPlace THEN app.heap ELSE heap)
    ELSE Suppressed(heap)

(* ConsoleLogger.Debug..Panicf: formatMessage appends the call's fields to *)
(* c.fields (nil for a formatted call) and the line is printed; Fatal then *)
(* calls os.Exit(1), Panic panics.                                         *)
ConsoleEmit(c, level, formatted, fs, heap) ==
    IF c.level <= level
    THEN LET app == AppendSlice(c.fields, IF formatted THEN <<>> ELSE fs, heap)
         IN  Outcome(TRUE, SliceElems(app.slice, app.heap), SignalOf(level),
                     IF app.inPlace THEN app.heap ELSE heap)
    ELSE Suppressed(heap)

(* StdLogger.Debug..Panicf: the same code as the console adapter *)
StdEmit(s, level, formatted, fs, heap) ==
    IF s.level <= level
    THEN LET app == AppendSlice(s.fields, IF formatted THEN <<>> ELSE fs, heap)
         IN  Outcome(TRUE, SliceElems(app.slice, app.heap), SignalOf(level),
                     IF app.inPlace THEN app.heap ELSE heap)
    ELSE Suppressed(heap)

(* toZapFields: a fresh slice of z.fields followed by the call's fields *)
ToZapFields(z, fs, heap) == SliceElems(z.fields, heap) \o fs

(* ZapLogger.Debug..Panicf: behind the adapter's gate the wrapped zap      *)
(* logger writes when its core admits the level; the record carries the    *)
(* fields bound to the zap logger and the fields passed.  zap's Fatal      *)
(* exits and zap's Panic panics whether or not the core admitted the entry.*)
ZapEmit(z, sink, level, formatted, fs, heap) ==
    IF z.level <= level
    THEN LET enabled == ToZapLevel(level) >= sink.lib
             passed  == IF formatted THEN <<>> ELSE ToZapFields(z, fs, heap)
         IN  Outcome(enabled, IF enabled THEN z.zfields \o passed ELSE <<>>,
                     SignalOf(level), heap)
    ELSE Suppressed(heap)

(* toLogrusFields: a map, a later field of the same key replacing an       *)
(* earlier one                                                             *)
ToLogrusFields(l, fs, heap) ==
    LET all == SliceElems(l.fields, heap) \o fs
    IN  [k \in {all[i].Key : i \in DOMAIN all} |->
            all[CHOOSE i \in DOMAIN all :
                    /\ all[i].Key = k
                    /\ \A j \in DOMAIN all : all[j].Key = k => j <= i].Value]

(* The keys the callers use, in the order in which logrus' formatters      *)
(* write the entries of a logrus.Fields map: sorted by key                 *)
KeyOrder == <<"a", "b", "c", "error", "status", "time">>

RECURSIVE SortedFields(_, _)
SortedFields(m, keys) ==
    IF keys = <<>> THEN <<>>
    ELSE (IF Head(keys) \in DOMAIN m
          THEN <<Field(Head(keys), m[Head(keys)])>> ELSE <<>>)
            \o SortedFields(m, Tail(keys))

(* LogrusLogger.Debug..Panicf: behind the adapter's gate the wrapped       *)
(* logrus logger writes when its own level admits the call; a formatted    *)
(* call goes to the logger without fields.  logrus' Fatal exits in any     *)
(* case, and os.Exit(1) follows; logrus' Panic panics after writing.       *)
LogrusEmit(l, sink, level, formatted, fs, heap) ==
    IF l.level <= level
    THEN LET enabled == sink.lib >= ToLogrusLevel(level)
             passed  == IF formatted THEN <<>>
                        ELSE SortedFields(ToLogrusFields(l, fs, heap), KeyOrder)
         IN  Outcome(enabled, IF enabled THEN passed ELSE <<>>,
                     IF level = PanicLevel /\ ~enabled THEN "none"
                     ELSE SignalOf(level),
                     heap)
    ELSE Suppressed(heap)

Emit(h, level, formatted, fs) ==
    LET c == handles[h]
    IN  CASE c.backend = "console" -> ConsoleEmit(c, level, formatted, fs, arrays)
          [] c.backend = "std"     -> StdEmit(c, level, formatted, fs, arrays)
          [] c.backend = "zap"     ->
                ZapEmit(c, sinks[c.logger], level, formatted, fs, arrays)
          [] c.backend = "logrus"  ->
                LogrusEmit(c, sinks[c.logger], level, formatted, fs, arrays)

(* A call of Debug, Info, Warn, Error, Fatal or Panic (formatted = FALSE)  *)
(* or of the ...f variant (formatted = TRUE) on handle h                   *)
CallEmit(h, level, formatted, fs) ==
    /\ proc = "running"
    /\ LET e == Emit(h, level, formatted, fs)
       IN  /\ arrays' = e.heap
           /\ proc' = IF e.signal = "exit" THEN "exited" ELSE proc
           /\ ret' = [op |-> "Emit", h |-> h, level |-> level,
                      formatted |-> formatted, fields |-> fs,
                      threshold |-> handles[h].level,
                      written |-> e.written, record |-> e.record,
                      signal |-> e.signal]
    /\ UNCHANGED <<handles, sinks, registryVars, globalVars>>

-----------------------------------------------------------------------------
(* The level-gating specification: one logger of any built-in backend,     *)
(* built with any WithLevel option or none, then SetLevel, emission and    *)
(* derivation in any order.                                                *)

TwoFields == <<Field("a", "1"), Field("b", "2")>>

LevelOptions == {<<>>} \cup {<<WithLevel(X)>> : X \in Levels}

InitHeap(l) ==
    /\ handles = <<[l.h EXCEPT !.logger = 1]>>
    /\ sinks = <<l.s>>
    /\ arrays = <<>>

InitLevel ==
    /\ providers = GetLogFactory.providers
    /\ defaultProvider = GetLogFactory.defaultProvider
    /\ \E backend \in Backends, opts \in LevelOptions :
          /\ InitHeap(NewLogger(backend, "svc", opts, TRUE))
          /\ ret = [op |-> "New", opts |-> opts]
    /\ globalLogger = NilLogger
    /\ loggerOnce = FALSE
    /\ FactoryBuilt
    /\ proc = "running"

NextLevel ==
    \/ \E h \in DOMAIN handles, level \in Levels : CallSetLevel(h, level)
    \/ \E h \in DOMAIN handles, level \in Levels, formatted \in BOOLEAN :
          CallEmit(h, level, formatted, <<>>)
    \/ \E h \in DOMAIN handles :
          Len(handles) < MaxLevelHandles /\ CallWithField(h, "a", "1")

SpecLevel == InitLevel /\ [][NextLevel]_vars

-----------------------------------------------------------------------------
(* The enrichment specification: one logger of any built-in backend, at    *)
(* the default threshold or another, then every With* call on any handle   *)
(* and emission from any handle.                                           *)

EnrichOptions == {<<>>, <<WithLevel(ErrorLevel)>>}
CallSiteFields == {<<>>, <<Field("c", "3")>>}

InitEnrich ==
    /\ providers = GetLogFactory.providers
    /\ defaultProvider = GetLogFactory.defaultProvider
    /\ \E backend \in Backends, opts \in EnrichOptions :
          InitHeap(NewLogger(backend, "svc", opts, TRUE))
    /\ ret = [op |-> "New"]
    /\ globalLogger = NilLogger
    /\ loggerOnce = FALSE
    /\ FactoryBuilt
    /\ proc = "running"

NextEnrich ==
    \/ \E h \in DOMAIN handles :
          Len(handles) < MaxEnrichHandles /\ CallWithField(h, "a", "1")
    \/ \E h \in DOMAIN handles :
          Len(handles) < MaxEnrichHandles /\ CallWithFields(h, TwoFields)
    \/ \E h \in DOMAIN handles :
          Len(handles) < MaxEnrichHandles /\ CallWithContext(h, "request")
    \/ \E h \in DOMAIN handles :
          Len(handles) < MaxEnrichHandles /\ CallWithError(h, "err")
    \/ \E h \in DOMAIN handles :
          Len(handles) < MaxEnrichHandles /\ CallWithTime(h, "t0")
    \/ \E h \in DOMAIN handles, fs \in CallSiteFields :
          CallEmit(h, InfoLevel, FALSE, fs)
    \/ \E h \in DOMAIN handles :
          CallEmit(h, InfoLevel, TRUE, <<>>)

SpecEnrich == InitEnrich /\ [][NextEnrich]_vars

-----------------------------------------------------------------------------
(* The enrichment-chain specification: one logger of any built-in backend  *)
(* at the default threshold, then chains of WithField and WithFields calls *)
(* long enough for a slice to have spare capacity, and emission.           *)

FieldKeys == {"a", "b"}

InitFields ==
    /\ providers = GetLogFactory.providers
    /\ defaultProvider = GetLogFactory.defaultProvider
    /\ \E backend \in Backends :
          InitHeap(NewLogger(backend, "svc", <<>>, TRUE))
    /\ ret = [op |-> "New"]
    /\ globalLogger = NilLogger
    /\ loggerOnce = FALSE
    /\ FactoryBuilt
    /\ proc = "running"

NextFields ==
    \/ \E h \in DOMAIN handles, key \in FieldKeys :
          Len(handles) < MaxFieldHandles /\ CallWithField(h, key, "1")
    \/ \E h \in DOMAIN handles :
          Len(handles) < MaxFieldHandles /\ CallWithFields(h, TwoFields)
    \/ \E h \in DOMAIN handles, fs \in CallSiteFields :
          CallEmit(h, InfoLevel, FALSE, fs)
    \/ \E h \in DOMAIN handles :
          CallEmit(h, InfoLevel, TRUE, <<>>)

SpecFields == InitFields /\ [][NextFields]_vars

-----------------------------------------------------------------------------
(* log_factory.go: the process-wide default logger.  loggerOnce.Do runs    *)
(* its body on the first GetLogger call only.                              *)

GetLogger ==
    IF loggerOnce
    THEN /\ UNCHANGED <<handles, sinks, globalLogger, loggerOnce>>
    ELSE /\ Allocate(CreateLogger("global", TRUE).logger)
         /\ globalLogger' = Len(handles) + 1
         /\ loggerOnce' = TRUE

SetGlobalLogger(logger) ==
    /\ globalLogger' = logger
    /\ UNCHANGED loggerOnce

CallGetLogger ==
    /\ proc = "running"
    /\ GetLogger
    /\ ret' = [op |-> "GetLogger", res |-> globalLogger']
    /\ UNCHANGED <<arrays, registryVars, lazyVars, proc>>

CallSetGlobalLogger(logger) ==
    /\ proc = "running"
    /\ SetGlobalLogger(logger)
    /\ ret' = [op |-> "SetGlobalLogger", logger |-> logger]
    /\ UNCHANGED <<heapVars, registryVars, lazyVars, proc>>

(* The caller builds a logger of its own *)
CallNewLogger(backend, opts) ==
    /\ proc = "running"
    /\ Allocate(NewLogger(backend, "mine", opts, TRUE))
    /\ ret' = [op |-> "New", res |-> Len(handles) + 1]
    /\ UNCHANGED <<arrays, registryVars, globalVars, proc>>

(* The free functions Debug..Panicf: GetLogger().<method>(...) *)
CallFree(level, formatted) ==
    /\ proc = "running"
    /\ GetLogger
    /\ LET target == IF loggerOnce THEN globalLogger ELSE Len(handles) + 1
           c == IF loggerOnce THEN handles[globalLogger]
                ELSE CreateLogger("global", TRUE).logger.h
           s == IF loggerOnce THEN sinks[c.logger]
                ELSE CreateLogger("global", TRUE).logger.s
           e == CASE c.backend = "console" -> ConsoleEmit(c, level, formatted, <<>>, arrays)
                  [] c.backend = "std"     -> StdEmit(c, level, formatted, <<>>, arrays)
                  [] c.backend = "zap"     -> ZapEmit(c, s, level, formatted, <<>>, arrays)
                  [] c.backend = "logrus"  -> LogrusEmit(c, s, level, formatted, <<>>, arrays)
       IN  /\ arrays' = e.heap
           /\ proc' = IF e.signal = "exit" THEN "exited" ELSE proc
           /\ ret' = [op |-> "Free", target |-> target, level |-> level,
                      formatted |-> formatted, written |-> e.written,
                      signal |-> e.signal]
    /\ UNCHANGED <<registryVars, lazyVars>>

GlobalBackends == {"console", "zap"}
GlobalDefaults == {"console", "zap", "alt"}
FreeLevels == {InfoLevel, ErrorLevel}

InitGlobal ==
    /\ providers = GetLogFactory.providers
    /\ defaultProvider = GetLogFactory.defaultProvider
    /\ handles = <<>>
    /\ arrays = <<>>
    /\ sinks = <<>>
    /\ globalLogger = NilLogger
    /\ loggerOnce = FALSE
    /\ FactoryBuilt
    /\ proc = "running"
    /\ ret = [op |-> "GetLogFactory"]

NextGlobal ==
    \/ CallGetLogger
    \/ \E logger \in DOMAIN handles : CallSetGlobalLogger(logger)
    \/ \E backend \in GlobalBackends :
          Len(handles) < MaxGlobalHandles /\ CallNewLogger(backend, <<>>)
    \/ \E name \in GlobalDefaults : proc = "running" /\ CallSetDefaultProvider(name)
    \/ \E name \in GlobalDefaults : proc = "running" /\ CallUnregisterProvider(name)
    \/ \E level \in FreeLevels, formatted \in BOOLEAN : CallFree(level, formatted)

SpecGlobal == InitGlobal /\ [][NextGlobal]_vars

-----------------------------------------------------------------------------
(* GetLevel and the enablement queries IsDebugEnabled..IsPanicEnabled:     *)
(* reads of the struct's level.                                            *)

CallGetLevel(h) ==
    /\ proc = "running"
    /\ ret' = [op |-> "GetLevel", h |-> h, res |-> GetLevel(h)]
    /\ UNCHANGED <<heapVars, registryVars, globalVars, proc>>

(* An enablement query that leaves out the level equal to the threshold *)
IsEnabled_Strict(h, level) == handles[h].level < level

IsEnabled(h, level) == handles[h].level <= level

CallIsEnabled(h, level) ==
    /\ proc = "running"
    /\ ret' = [op |-> "IsEnabled", h |-> h, level |-> level, res |-> IsEnabled(h, level)]
    /\ UNCHANGED <<heapVars, registryVars, globalVars, proc>>

-----------------------------------------------------------------------------
(* Sync: the console, std and logrus adapters return nil; the zap adapter  *)
(* returns what the wrapped logger's Sync returns, nil or the error of the *)
(* sink's fsync (a terminal or a pipe refuses it).                         *)

(* A std adapter that hands on a flush error *)
Sync_StdFails(h) ==
    IF handles[h].backend \in {"zap", "std"} THEN {"nil", "error"} ELSE {"nil"}

Sync(h) ==
    IF handles[h].backend = "zap" THEN {"nil", "error"} ELSE {"nil"}

CallSync(h) ==
    /\ proc = "running"
    /\ \E err \in Sync(h) : ret' = [op |-> "Sync", h |-> h, err |-> err]
    /\ UNCHANGED <<heapVars, registryVars, globalVars, proc>>

-----------------------------------------------------------------------------
(* The construction specification: a logger of any built-in backend built  *)
(* with any sequence of options, the output path opening or not, then      *)
(* level changes, level and enablement queries and emission.               *)

MaxOptions == 3

OptionValues ==
    {WithLevel(X) : X \in Levels}
        \cup {WithFormat("json"), WithFormat("text")}
        \cup {WithOutputPath("stdout"), WithOutputPath("app.log")}

RECURSIVE OptionSeqs(_)
OptionSeqs(n) ==
    IF n = 0 THEN {<<>>}
    ELSE OptionSeqs(n - 1)
            \cup {Append(opts, opt) : opts \in OptionSeqs(n - 1), opt \in OptionValues}

InitOptions ==
    /\ providers = GetLogFactory.providers
    /\ defaultProvider = GetLogFactory.defaultProvider
    /\ \E backend \in Backends, opts \in OptionSeqs(MaxOptions), openOK \in BOOLEAN :
          LET l == NewLogger(backend, "svc", opts, openOK)
          IN  /\ InitHeap(l)
              /\ ret = [op |-> "New", backend |-> backend, opts |-> opts,
                        openOK |-> openOK, options |-> l.o]
    /\ globalLogger = NilLogger
    /\ loggerOnce = FALSE
    /\ FactoryBuilt
    /\ proc = "running"

NextOptions ==
    \/ \E h \in DOMAIN handles, level \in Levels : CallSetLevel(h, level)
    \/ \E h \in DOMAIN handles : CallGetLevel(h)
    \/ \E h \in DOMAIN handles, level \in Levels : CallIsEnabled(h, level)
    \/ \E h \in DOMAIN handles, level \in Levels, formatted \in BOOLEAN :
          CallEmit(h, level, formatted, <<>>)
    \/ \E h \in DOMAIN handles : CallSync(h)

SpecOptions == InitOptions /\ [][NextOptions]_vars

-----------------------------------------------------------------------------
(* logger.go: LogLevel.String, a switch over the six constants with a      *)
(* default branch.  LogLevel is an int, so any integer can be rendered.    *)

MaxRendered == 60

(* A rendering that takes every value below InfoLevel for DebugLevel *)
String_FloorDebug(l) ==
    CASE l <= DebugLevel -> "DEBUG"
      [] l = InfoLevel   -> "INFO"
      [] l = WarnLevel   -> "WARN"
      [] l = ErrorLevel  -> "ERROR"
      [] l = FatalLevel  -> "FATAL"
      [] l = PanicLevel  -> "PANIC"
      [] OTHER           -> "UNKNOWN"

String(l) ==
    CASE l = DebugLevel -> "DEBUG"
      [] l = InfoLevel  -> "INFO"
      [] l = WarnLevel  -> "WARN"
      [] l = ErrorLevel -> "ERROR"
      [] l = FatalLevel -> "FATAL"
      [] l = PanicLevel -> "PANIC"
      [] OTHER          -> "UNKNOWN"

CallString(l) ==
    /\ proc = "running"
    /\ ret' = [op |-> "String", level |-> l, res |-> String(l)]
    /\ UNCHANGED <<heapVars, registryVars, globalVars, proc>>

InitString ==
    /\ providers = GetLogFactory.providers
    /\ defaultProvider = GetLogFactory.defaultProvider
    /\ handles = NoHeap
    /\ arrays = NoHeap
    /\ sinks = NoHeap
    /\ ret = [op |-> "Start"]
    /\ globalLogger = NilLogger
    /\ loggerOnce = FALSE
    /\ FactoryBuilt
    /\ proc = "running"

SpecString ==
    InitString /\ [][\E l \in (0 - MaxRendered)..MaxRendered : CallString(l)]_vars

-----------------------------------------------------------------------------
(* Lazy construction by concurrent goroutines.  Each goroutine calls       *)
(* GetLogFactory() or GetLogger() again and again; one step of the model   *)
(* is one shared-memory access of one goroutine.  sync.Once.Do(f) reads    *)
(* the done flag; when it is not set it locks the Once's mutex, reads the  *)
(* flag again, runs f when it is still not set, sets the flag and unlocks. *)

MaxThreads == 2
Threads == 1..MaxThreads

Idle == [pc |-> "idle", call |-> "none"]
LazyCalls == {"GetLogFactory", "GetLogger"}

(* A Once whose slow path does not wait for the mutex *)
OnceMutexFree_NoWait(once) == TRUE

OnceMutexFree(once) == onceMutex[once] = NoThread

Goto(t, pc) == threads' = [threads EXCEPT ![t].pc = pc]

StartCall(t, call) ==
    /\ threads[t].pc = "idle"
    /\ threads' = [threads EXCEPT ![t] =
                      [pc |-> IF call = "GetLogFactory" THEN "f_check" ELSE "l_check",
                       call |-> call]]
    /\ UNCHANGED <<registryVars, heapVars, globalLogger, loggerOnce,
                   factory, factoryOnce, onceMutex, mu, proc, ret>>

(* GetLogFactory: factoryOnce.Do *)
FactoryOnceCheck(t) ==
    /\ threads[t].pc = "f_check"
    /\ Goto(t, IF factoryOnce THEN "f_ret" ELSE "f_lock")
    /\ UNCHANGED <<registryVars, heapVars, globalLogger, loggerOnce,
                   factory, factoryOnce, onceMutex, mu, proc, ret>>

FactoryOnceLock(t) ==
    /\ threads[t].pc = "f_lock"
    /\ OnceMutexFree("factory")
    /\ onceMutex' = [onceMutex EXCEPT !.factory = t]
    /\ Goto(t, IF factoryOnce THEN "f_unlock" ELSE "f_new")
    /\ UNCHANGED <<registryVars, heapVars, globalLogger, loggerOnce,
                   factory, factoryOnce, mu, proc, ret>>

(* factory = NewLogFactory() *)
FactoryNew(t) ==
    /\ threads[t].pc = "f_new"
    /\ factory' = factory + 1
    /\ providers' = NewLogFactory.providers
    /\ defaultProvider' = NewLogFactory.defaultProvider
    /\ Goto(t, "f_console")
    /\ UNCHANGED <<heapVars, globalLogger, loggerOnce, factoryOnce, onceMutex, mu, proc, ret>>

(* The four factory.RegisterProvider calls, in the order of the source *)
RegisterAt == [f_console |-> "console", f_zap |-> "zap",
               f_logrus |-> "logrus", f_std |-> "std"]
RegisterThen == [f_console |-> "f_zap", f_zap |-> "f_logrus",
                 f_logrus |-> "f_std", f_std |-> "f_default"]

FactoryRegister(t) ==
    /\ threads[t].pc \in DOMAIN RegisterAt
    /\ providers' = RegisterProvider(RegisterAt[threads[t].pc], RegisterAt[threads[t].pc])
    /\ Goto(t, RegisterThen[threads[t].pc])
    /\ UNCHANGED <<defaultProvider, heapVars, globalLogger, loggerOnce,
                   factory, factoryOnce, onceMutex, mu, proc, ret>>

(* factory.SetDefaultProvider("console") *)
FactorySetDefault(t) ==
    /\ threads[t].pc = "f_default"
    /\ defaultProvider' = SetDefaultProvider("console")
    /\ Goto(t, "f_done")
    /\ UNCHANGED <<providers, heapVars, globalLogger, loggerOnce,
                   factory, factoryOnce, onceMutex, mu, proc, ret>>

FactoryOnceDone(t) ==
    /\ threads[t].pc = "f_done"
    /\ factoryOnce' = TRUE
    /\ Goto(t, "f_unlock")
    /\ UNCHANGED <<registryVars, heapVars, globalLogger, loggerOnce,
                   factory, onceMutex, mu, proc, ret>>

FactoryOnceUnlock(t) ==
    /\ threads[t].pc = "f_unlock"
    /\ onceMutex' = [onceMutex EXCEPT !.factory = NoThread]
    /\ Goto(t, "f_ret")
    /\ UNCHANGED <<registryVars, heapVars, globalLogger, loggerOnce,
                   factory, factoryOnce, mu, proc, ret>>

(* return factory: to the caller, or into the body of loggerOnce.Do *)
FactoryReturn(t) ==
    /\ threads[t].pc = "f_ret"
    /\ IF threads[t].call = "GetLogFactory"
       THEN /\ threads' = [threads EXCEPT ![t] = Idle]
            /\ ret' = [op |-> "GetLogFactory", t |-> t, res |-> factory,
                       providers |-> providers, defaultProvider |-> defaultProvider]
       ELSE /\ Goto(t, "l_create")
            /\ UNCHANGED ret
    /\ UNCHANGED <<registryVars, heapVars, globalLogger, loggerOnce,
                   factory, factoryOnce, onceMutex, mu, proc>>

(* GetLogger: loggerOnce.Do *)
LoggerOnceCheck(t) ==
    /\ threads[t].pc = "l_check"
    /\ Goto(t, IF loggerOnce THEN "l_ret" ELSE "l_lock")
    /\ UNCHANGED <<registryVars, heapVars, globalLogger, loggerOnce,
                   factory, factoryOnce, onceMutex, mu, proc, ret>>

LoggerOnceLock(t) ==
    /\ threads[t].pc = "l_lock"
    /\ OnceMutexFree("logger")
    /\ onceMutex' = [onceMutex EXCEPT !.logger = t]
    /\ Goto(t, IF loggerOnce THEN "l_unlock" ELSE "f_check")
    /\ UNCHANGED <<registryVars, heapVars, globalLogger, loggerOnce,
                   factory, factoryOnce, mu, proc, ret>>

(* globalLogger = <the factory returned>.CreateLogger("global") *)
LoggerCreate(t) ==
    /\ threads[t].pc = "l_create"
    /\ Allocate(CreateLogger("global", TRUE).logger)
    /\ globalLogger' = Len(handles) + 1
    /\ Goto(t, "l_done")
    /\ UNCHANGED <<registryVars, arrays, loggerOnce, factory, factoryOnce,
                   onceMutex, mu, proc, ret>>

LoggerOnceDone(t) ==
    /\ threads[t].pc = "l_done"
    /\ loggerOnce' = TRUE
    /\ Goto(t, "l_unlock")
    /\ UNCHANGED <<registryVars, heapVars, globalLogger, factory, factoryOnce,
                   onceMutex, mu, proc, ret>>

LoggerOnceUnlock(t) ==
    /\ threads[t].pc = "l_unlock"
    /\ onceMutex' = [onceMutex EXCEPT !.logger = NoThread]
    /\ Goto(t, "l_ret")
    /\ UNCHANGED <<registryVars, heapVars, globalLogger, loggerOnce,
                   factory, factoryOnce, mu, proc, ret>>

(* return globalLogger *)
LoggerReturn(t) ==
    /\ threads[t].pc = "l_ret"
    /\ threads' = [threads EXCEPT ![t] = Idle]
    /\ ret' = [op |-> "GetLogger", t |-> t, res |-> globalLogger]
    /\ UNCHANGED <<registryVars, heapVars, globalLogger, loggerOnce,
                   factory, factoryOnce, onceMutex, mu, proc>>

InitOnce ==
    /\ providers = NoHeap
    /\ defaultProvider = ""
    /\ handles = NoHeap
    /\ arrays = NoHeap
    /\ sinks = NoHeap
    /\ globalLogger = NilLogger
    /\ loggerOnce = FALSE
    /\ factory = NilFactory
    /\ factoryOnce = FALSE
    /\ onceMutex = [factory |-> NoThread, logger |-> NoThread]
    /\ mu = Unlocked
    /\ threads = [t \in Threads |-> Idle]
    /\ proc = "running"
    /\ ret = [op |-> "Start"]

NextOnce ==
    \/ \E t \in Threads, call \in LazyCalls : StartCall(t, call)
    \/ \E t \in Threads : FactoryOnceCheck(t)
    \/ \E t \in Threads : FactoryOnceLock(t)
    \/ \E t \in Threads : FactoryNew(t)
    \/ \E t \in Threads : FactoryRegister(t)
    \/ \E t \in Threads : FactorySetDefault(t)
    \/ \E t \in Threads : FactoryOnceDone(t)
    \/ \E t \in Threads : FactoryOnceUnlock(t)
    \/ \E t \in Threads : FactoryReturn(t)
    \/ \E t \in Threads : LoggerOnceCheck(t)
    \/ \E t \in Threads : LoggerOnceLock(t)
    \/ \E t \in Threads : LoggerCreate(t)
    \/ \E t \in Threads : LoggerOnceDone(t)
    \/ \E t \in Threads : LoggerOnceUnlock(t)
    \/ \E t \in Threads : LoggerReturn(t)

SpecOnce == InitOnce /\ [][NextOnce]_vars

-----------------------------------------------------------------------------
(* The registry's methods called by concurrent goroutines.  A step is one  *)
(* lock operation, one access to providers or defaultProvider, or the      *)
(* provider call that ends a creation.  f.mu is a sync.RWMutex: Lock waits *)
(* for no writer and no readers, RLock for no writer.  A string is two     *)
(* words, so the store of defaultProvider takes two steps, and a load that *)
(* no lock orders after or before it may see the old name, the new name or *)
(* the pointer of one with the length of the other.                        *)

IdleCaller ==
    [pc |-> "idle", m |-> "none", arg |-> "", pn |-> "",
     provider |-> NilProvider, exists |-> FALSE, seen |-> {}, got |-> <<>>]

LockedCalls ==
    {[m |-> "RegisterProvider", arg |-> "alt"],
     [m |-> "UnregisterProvider", arg |-> "console"],
     [m |-> "SetDefaultProvider", arg |-> "alt"],
     [m |-> "GetDefaultProvider", arg |-> ""],
     [m |-> "GetProvider", arg |-> "alt"],
     [m |-> "CreateLogger", arg |-> ""],
     [m |-> "CreateLoggerWithProvider", arg |-> "alt"],
     [m |-> "CreateLoggerWithConfig", arg |-> NilMap],
     [m |-> "CreateLoggerWithConfig", arg |-> [k \in {"provider"} |-> Str("alt")]]}

(* The call starts.  CreateLogger and CreateLoggerWithConfig begin with a  *)
(* load of f.defaultProvider, the other methods with a lock operation.     *)
(* seen collects the registry states that exist while a creation runs.     *)
BeginCall(t, c) ==
    /\ threads[t].pc = "idle"
    /\ threads' = [threads EXCEPT ![t] =
          [IdleCaller EXCEPT
              !.pc = CASE c.m \in {"RegisterProvider", "UnregisterProvider",
                                   "SetDefaultProvider"} -> "w_lock"
                       [] c.m \in {"GetDefaultProvider", "GetProvider"} -> "r_lock"
                       [] c.m \in {"CreateLogger", "CreateLoggerWithConfig"} -> "c_default"
                       [] c.m = "CreateLoggerWithProvider" -> "p_lock1",
              !.m = c.m,
              !.arg = c.arg,
              !.pn = IF c.m = "CreateLoggerWithProvider" THEN c.arg ELSE "",
              !.seen = IF c.m \in {"CreateLogger", "CreateLoggerWithProvider",
                                   "CreateLoggerWithConfig"}
                       THEN {<<providers, defaultProvider>>} ELSE {}]]
    /\ UNCHANGED <<registryVars, heapVars, globalLogger, loggerOnce,
                   factory, factoryOnce, onceMutex, mu, proc, ret>>

(* f.defaultProvider read with no lock held: the argument of               *)
(* CreateLoggerWithProvider in CreateLogger, the initial providerName in   *)
(* CreateLoggerWithConfig, which a string under "provider" then replaces   *)
ReadDefaultUnlocked(t) ==
    /\ threads[t].pc = "c_default"
    /\ \E v \in {defaultProvider}
                  \cup UNION {{threads[w].arg, "torn"} :
                                w \in {u \in DOMAIN threads : threads[u].pc = "w_storing"}} :
          threads' = [threads EXCEPT
              ![t].pc = "p_lock1",
              ![t].pn = IF threads[t].m = "CreateLoggerWithConfig"
                           /\ HasString(threads[t].arg, "provider")
                        THEN threads[t].arg["provider"].s ELSE v]
    /\ UNCHANGED <<registryVars, heapVars, globalLogger, loggerOnce,
                   factory, factoryOnce, onceMutex, mu, proc, ret>>

(* f.mu.Lock() and f.mu.RLock() *)
Acquire(t) ==
    /\ \/ /\ threads[t].pc = "w_lock"
          /\ mu = Unlocked
          /\ mu' = [mu EXCEPT !.writer = t]
          /\ threads' = [threads EXCEPT ![t].pc = "w_write"]
       \/ /\ threads[t].pc \in {"r_lock", "p_lock1", "p_lock2"}
          /\ mu.writer = NoThread
          /\ mu' = [mu EXCEPT !.readers = @ \cup {t}]
          /\ threads' = [threads EXCEPT ![t].pc =
                CASE threads[t].pc = "r_lock"  -> "r_read"
                  [] threads[t].pc = "p_lock1" -> "p_read1"
                  [] threads[t].pc = "p_lock2" -> "p_read2"]
    /\ UNCHANGED <<registryVars, heapVars, globalLogger, loggerOnce,
                   factory, factoryOnce, onceMutex, proc, ret>>

(* The statement between the lock and the unlock of each method *)
Access(t) ==
    LET c == threads[t]
        (* the registry after a write joins what every running creation has seen *)
        Wrote(P, d, pc) ==
            [u \in DOMAIN threads |->
                IF u = t THEN [c EXCEPT !.pc = pc]
                ELSE IF threads[u].seen = {} THEN threads[u]
                ELSE [threads[u] EXCEPT !.seen = @ \cup {<<P, d>>}]]
        Read(r, pc) ==
            [threads EXCEPT ![t].provider = r[1], ![t].exists = r[2], ![t].pc = pc]
    IN  /\ \/ /\ c.pc = "w_write" /\ c.m = "RegisterProvider"
              /\ providers' = RegisterProvider(c.arg, CustomProvider)
              /\ threads' = Wrote(providers', defaultProvider, "w_unlock")
              /\ UNCHANGED defaultProvider
           \/ /\ c.pc = "w_write" /\ c.m = "UnregisterProvider"
              /\ providers' = UnregisterProvider(c.arg)
              /\ threads' = Wrote(providers', defaultProvider, "w_unlock")
              /\ UNCHANGED defaultProvider
           \/ /\ c.pc = "w_write" /\ c.m = "SetDefaultProvider"
              /\ threads' = [threads EXCEPT ![t].pc = "w_storing"]
              /\ UNCHANGED registryVars
           \/ /\ c.pc = "w_storing"
              /\ defaultProvider' = SetDefaultProvider(c.arg)
              /\ threads' = Wrote(providers, defaultProvider', "w_unlock")
              /\ UNCHANGED providers
           \/ /\ c.pc = "r_read" /\ c.m = "GetDefaultProvider"
              /\ threads' = [threads EXCEPT ![t].pn = GetDefaultProvider,
                                            ![t].pc = "r_unlock"]
              /\ UNCHANGED registryVars
           \/ /\ c.pc = "r_read" /\ c.m = "GetProvider"
              /\ threads' = Read(GetProvider(c.arg), "r_unlock")
              /\ UNCHANGED registryVars
           \/ /\ c.pc = "p_read1"
              /\ threads' = Read(GetProvider(c.pn), "p_unlock1")
              /\ UNCHANGED registryVars
           \/ /\ c.pc = "p_read2"
              /\ threads' = Read(GetProvider(defaultProvider), "p_unlock2")
              /\ UNCHANGED registryVars
        /\ UNCHANGED <<heapVars, globalLogger, loggerOnce,
                       factory, factoryOnce, onceMutex, mu, proc, ret>>

(* f.mu.Unlock() and f.mu.RUnlock(); the writers and the two getters       *)
(* return, a creation goes on to the default provider or to the provider   *)
(* call                                                                    *)
Release(t) ==
    LET c == threads[t]
    IN  /\ \/ /\ c.pc = "w_unlock"
              /\ mu' = [mu EXCEPT !.writer = NoThread]
              /\ threads' = [threads EXCEPT ![t] = IdleCaller]
              /\ ret' = [op |-> c.m]
           \/ /\ c.pc = "r_unlock"
              /\ mu' = [mu EXCEPT !.readers = @ \ {t}]
              /\ threads' = [threads EXCEPT ![t] = IdleCaller]
              /\ ret' = [op |-> c.m,
                         res |-> IF c.m = "GetDefaultProvider" THEN <<c.pn>>
                                 ELSE <<c.provider, c.exists>>]
           \/ /\ c.pc = "p_unlock1"
              /\ mu' = [mu EXCEPT !.readers = @ \ {t}]
              /\ threads' = [threads EXCEPT ![t].pc =
                                IF c.exists THEN "p_create" ELSE "p_lock2"]
              /\ UNCHANGED ret
           \/ /\ c.pc = "p_unlock2"
              /\ mu' = [mu EXCEPT !.readers = @ \ {t}]
              /\ threads' = [threads EXCEPT ![t].pc = "p_create"]
              /\ UNCHANGED ret
        /\ UNCHANGED <<registryVars, heapVars, globalLogger, loggerOnce,
                       factory, factoryOnce, onceMutex, proc>>

(* return provider.Create(name), provider.CreateWithConfig(name, config)   *)
(* or, with no provider found, NewConsoleLogger(name)                      *)
Create(t) ==
    LET c == threads[t]
    IN  /\ c.pc = "p_create"
        /\ ret' = [op |-> c.m,
                   res |-> IF ~c.exists
                           THEN Returned(HardCoded, NewConsoleLogger("svc", <<>>, TRUE))
                           ELSE IF c.m = "CreateLoggerWithConfig"
                           THEN ProviderCreateWithConfig(c.provider, "svc", c.arg, TRUE)
                           ELSE ProviderCreate(c.provider, "svc", TRUE)]
        /\ threads' = [threads EXCEPT ![t] = IdleCaller]
        /\ UNCHANGED <<registryVars, heapVars, globalLogger, loggerOnce,
                       factory, factoryOnce, onceMutex, mu, proc>>

InitLocked ==
    /\ providers = GetLogFactory.providers
    /\ defaultProvider = GetLogFactory.defaultProvider
    /\ handles = NoHeap
    /\ arrays = NoHeap
    /\ sinks = NoHeap
    /\ globalLogger = NilLogger
    /\ loggerOnce = FALSE
    /\ factory = 1
    /\ factoryOnce = TRUE
    /\ onceMutex = [factory |-> NoThread, logger |-> NoThread]
    /\ mu = Unlocked
    /\ threads = [t \in Threads |-> IdleCaller]
    /\ proc = "running"
    /\ ret = [op |-> "GetLogFactory"]

NextLocked ==
    \/ \E t \in Threads, c \in LockedCalls : BeginCall(t, c)
    \/ \E t \in Threads : ReadDefaultUnlocked(t)
    \/ \E t \in Threads : Acquire(t)
    \/ \E t \in Threads : Access(t)
    \/ \E t \in Threads : Release(t)
    \/ \E t \in Threads : Create(t)

SpecLocked == InitLocked /\ [][NextLocked]_vars

-----------------------------------------------------------------------------
(* SetGlobalLogger and GetLogger called by concurrent goroutines after the *)
(* first GetLogger() has built the default logger.  globalLogger is an     *)
(* interface value: a word for the dynamic type and a word for the pointer *)
(* to the struct.  `globalLogger = logger` stores the two words and        *)
(* `return globalLogger` loads them, one after the other, with no lock and *)
(* no atomic operation; loggerOnce.Do finds the Once done and returns.     *)

Iface(h) == [tab |-> handles[h].backend, data |-> h]

StartGlobal(t, c) ==
    /\ threads[t].pc = "idle"
    /\ threads' = [threads EXCEPT ![t] =
                      [IdleCaller EXCEPT !.pc = "g_tab", !.m = c.m, !.arg = c.arg]]
    /\ UNCHANGED <<registryVars, heapVars, globalLogger, loggerOnce,
                   factory, factoryOnce, onceMutex, mu, proc, ret>>

GlobalWord(t) ==
    LET c == threads[t]
    IN  /\ \/ /\ c.pc = "g_tab" /\ c.m = "SetGlobalLogger"
              /\ globalLogger' = [globalLogger EXCEPT !.tab = Iface(c.arg).tab]
              /\ threads' = [threads EXCEPT ![t].pc = "g_data"]
              /\ UNCHANGED ret
           \/ /\ c.pc = "g_data" /\ c.m = "SetGlobalLogger"
              /\ globalLogger' = [globalLogger EXCEPT !.data = Iface(c.arg).data]
              /\ threads' = [threads EXCEPT ![t] = IdleCaller]
              /\ ret' = [op |-> "SetGlobalLogger", logger |-> c.arg]
           \/ /\ c.pc = "g_tab" /\ c.m = "GetLogger"
              /\ threads' = [threads EXCEPT ![t].got = <<globalLogger.tab>>,
                                            ![t].pc = "g_data"]
              /\ UNCHANGED <<globalLogger, ret>>
           \/ /\ c.pc = "g_data" /\ c.m = "GetLogger"
              /\ threads' = [threads EXCEPT ![t] = IdleCaller]
              /\ ret' = [op |-> "GetLogger",
                         res |-> [tab |-> c.got[1], data |-> globalLogger.data]]
              /\ UNCHANGED globalLogger
        /\ UNCHANGED <<registryVars, heapVars, loggerOnce,
                       factory, factoryOnce, onceMutex, mu, proc>>

InitTorn ==
    /\ providers = GetLogFactory.providers
    /\ defaultProvider = GetLogFactory.defaultProvider
    /\ handles = <<[NewConsoleLogger("global", <<>>, TRUE).h EXCEPT !.logger = 1],
                   [NewZapLogger("svc", <<>>, TRUE).h EXCEPT !.logger = 2],
                   [NewStdLogger("svc", <<>>, TRUE).h EXCEPT !.logger = 3]>>
    /\ sinks = <<NewConsoleLogger("global", <<>>, TRUE).s,
                 NewZapLogger("svc", <<>>, TRUE).s,
                 NewStdLogger("svc", <<>>, TRUE).s>>
    /\ arrays = NoHeap
    /\ globalLogger = Iface(1)
    /\ loggerOnce = TRUE
    /\ factory = 1
    /\ factoryOnce = TRUE
    /\ onceMutex = [factory |-> NoThread, logger |-> NoThread]
    /\ mu = Unlocked
    /\ threads = [t \in Threads |-> IdleCaller]
    /\ proc = "running"
    /\ ret = [op |-> "GetLogger", res |-> Iface(1)]

SpecTorn ==
    InitTorn
    /\ [][\/ \E t \in Threads, h \in DOMAIN handles :
                StartGlobal(t, [m |-> "SetGlobalLogger", arg |-> h])
          \/ \E t \in Threads : StartGlobal(t, [m |-> "GetLogger", arg |-> ""])
          \/ \E t \in Threads : GlobalWord(t)]_vars

-----------------------------------------------------------------------------
(* The gin adapter.  UseWithGin installs GinLogger.Logger and then          *)
(* GinLogger.Recovery, so a request runs Logger, whose c.Next() runs        *)
(* Recovery, whose c.Next() runs the route's handler.  A handler b sets the *)
(* status b.status, writes the response header or leaves that to the        *)
(* engine (b.writes), and returns or panics (b.panics).  gin's              *)
(* AbortWithStatus changes the recorded status of a response whose header   *)
(* is already written in some releases and keeps it in others (b.keeps);    *)
(* the header that was sent stays as it is.  One goroutine serves the       *)
(* request, so the request is one step.                                     *)

(* A level switch whose first case leaves out status 500 itself *)
AccessLevel_Above500(statusCode) ==
    IF statusCode > 500 THEN ErrorLevel
    ELSE IF statusCode >= 400 THEN WarnLevel
    ELSE InfoLevel

(* The switch of GinLogger.Logger *)
AccessLevel(statusCode) ==
    IF statusCode >= 500 THEN ErrorLevel
    ELSE IF statusCode >= 400 THEN WarnLevel
    ELSE IF statusCode >= 300 THEN InfoLevel
    ELSE InfoLevel

(* GinLogger.Recovery around the handler: what has happened when it returns *)
Recovery(b) ==
    IF b.panics
    THEN [events |-> <<[kind |-> "handler"], [kind |-> "recovery", level |-> ErrorLevel]>>,
          status |-> IF b.writes /\ b.keeps THEN b.status ELSE 500,
          sent |-> IF b.writes THEN b.status ELSE 500,
          written |-> TRUE,
          panicking |-> FALSE]
    ELSE [events |-> <<[kind |-> "handler"]>>,
          status |-> b.status,
          sent |-> b.status,
          written |-> b.writes,
          panicking |-> FALSE]

(* GinLogger.Logger around Recovery: c.Next(), then the access record at    *)
(* the level of c.Writer.Status()                                           *)
GinLoggerLogger(b) ==
    LET r == Recovery(b)
    IN  [r EXCEPT !.events = @ \o <<[kind |-> "access", level |-> AccessLevel(r.status)]>>]

(* One request served by the engine through the logger at handle 1 *)
ServeHTTP(status, writes, panics, keeps) ==
    LET b == [status |-> status, writes |-> writes, panics |-> panics, keeps |-> keeps]
        c == GinLoggerLogger(b)
    IN  /\ proc = "running"
        /\ ret' = [op |-> "Request", handler |-> b,
                   status |-> c.status, answered |-> c.sent,
                   propagated |-> c.panicking,
                   calls |-> c.events,
                   written |-> [i \in DOMAIN c.events |->
                                   IF c.events[i].kind = "handler" THEN FALSE
                                   ELSE Emit(1, c.events[i].level, FALSE,
                                             <<Field("status", c.status)>>).written]]
        /\ UNCHANGED <<heapVars, registryVars, globalVars, proc>>

InitGin ==
    /\ providers = GetLogFactory.providers
    /\ defaultProvider = GetLogFactory.defaultProvider
    /\ \E backend \in Backends, opts \in LevelOptions :
          InitHeap(NewLogger(backend, "gin-app", opts, TRUE))
    /\ ret = [op |-> "UseWithGin"]
    /\ globalLogger = NilLogger
    /\ loggerOnce = FALSE
    /\ FactoryBuilt
    /\ proc = "running"

SpecGin ==
    InitGin
    /\ [][\E status \in {200, 204, 302, 400, 404, 499, 500, 503},
             writes \in BOOLEAN, panics \in BOOLEAN, keeps \in BOOLEAN :
             ServeHTTP(status, writes, panics, keeps)]_vars

-----------------------------------------------------------------------------
(* Claims about the registry, checked under SpecRegistry *)

CreationOps == {"CreateLogger", "CreateLoggerWithProvider", "CreateLoggerWithConfig"}

(* The backend a provider's Create builds *)
BackendOf(p) == IF p = CustomProvider THEN "custom" ELSE p

(* The hard-coded fallback: NewConsoleLogger(name) with no options *)
IsDefaultConsole(res, name) ==
    /\ res.outcome = "logger"
    /\ res.via = HardCoded
    /\ res.logger = NewConsoleLogger(name, <<>>, TRUE)

(* C1: every creation call, in every registry state reachable through      *)
(* RegisterProvider (any provider value, nil included), UnregisterProvider  *)
(* and SetDefaultProvider, returns a Logger and does not panic.             *)
C1_ResolutionTotal ==
    ret.op \in CreationOps => ret.res.outcome = "logger"

(* C2: CreateLoggerWithProvider(name, p) dispatches to the Create of the    *)
(* provider registered under p when p is registered; otherwise to the       *)
(* Create of the provider registered under the current default name when    *)
(* that is registered; otherwise it returns the hard-coded console logger   *)
(* with default options.  A logger that a provider returns has that         *)
(* provider's backend.                                                      *)
C2_FallbackChain ==
    ret.op = "CreateLoggerWithProvider" =>
        /\ IF ret.providerName \in DOMAIN providers
           THEN ret.res.via = providers[ret.providerName]
           ELSE IF defaultProvider \in DOMAIN providers
                THEN ret.res.via = providers[defaultProvider]
                ELSE IsDefaultConsole(ret.res, ret.name)
        /\ (ret.res.outcome = "logger" /\ ret.res.via # HardCoded) =>
               ret.res.logger.h.backend = BackendOf(ret.res.via)

(* "console" is the default, "alt" is registered, and the logger asked of   *)
(* "alt" has alt's backend, not console's.                                  *)
C2_Witness ==
    /\ ret.op = "CreateLoggerWithProvider"
    /\ ret.providerName = "alt"
    /\ "alt" \in DOMAIN providers /\ providers["alt"] = CustomProvider
    /\ defaultProvider = "console"
    /\ "console" \in DOMAIN providers /\ providers["console"] = "console"
    /\ ret.res.outcome = "logger"
    /\ ret.res.logger.h.backend = "custom"

(* C9: after RegisterProvider(x, P), GetProvider(x) is (P, true), also when *)
(* x was registered before; after UnregisterProvider(x) it is (_, false);   *)
(* unregistering an absent name changes nothing; and each of the two leaves *)
(* every other name's entry and the default-provider name as they were.     *)
C9_Step ==
    \A x \in ProviderNames :
        /\ \A P \in ProviderValues :
              (ret'.op = "RegisterProvider" /\ ret'.name = x /\ ret'.provider = P) =>
                  /\ GetProvider(x)' = <<P, TRUE>>
                  /\ \A y \in ProviderNames \ {x} : GetProvider(y)' = GetProvider(y)
                  /\ defaultProvider' = defaultProvider
        /\ (ret'.op = "UnregisterProvider" /\ ret'.name = x) =>
              /\ GetProvider(x)'[2] = FALSE
              /\ \A y \in ProviderNames \ {x} : GetProvider(y)' = GetProvider(y)
              /\ defaultProvider' = defaultProvider
              /\ (GetProvider(x)[2] = FALSE => providers' = providers)

C9_RegistryRoundTrip == [][C9_Step]_vars

(* A name that holds a built-in provider is registered again with another  *)
(* provider, and the lookup returns the new one.                            *)
C9_Witness ==
    /\ ret.op = "RegisterProvider"
    /\ ret.name = "zap" /\ ret.provider = CustomProvider
    /\ GetProvider("zap") = <<CustomProvider, TRUE>>
    /\ GetProvider("console") = <<"console", TRUE>>

(* C10: SetDefaultProvider(p2) is accepted whether or not p2 is registered, *)
(* leaves the provider map alone and makes GetDefaultProvider() return p2;  *)
(* afterwards CreateLogger(name) dispatches to the Create of the provider   *)
(* registered under p2, and returns the hard-coded console logger when p2   *)
(* is not registered.                                                       *)
C10_Step ==
    /\ \A p2 \in ProviderNames :
          (ret'.op = "SetDefaultProvider" /\ ret'.name = p2) =>
              /\ GetDefaultProvider' = p2
              /\ providers' = providers
    /\ ret'.op = "CreateLogger" =>
          /\ UNCHANGED registryVars
          /\ IF defaultProvider \in DOMAIN providers
             THEN /\ ret'.res.via = providers[defaultProvider]
                  /\ ret'.res.outcome = "logger" =>
                        ret'.res.logger.h.backend = BackendOf(providers[defaultProvider])
             ELSE IsDefaultConsole(ret'.res, ret'.name)

C10_DefaultProviderSwitch == [][C10_Step]_vars

(* The default was switched to "zap", which is registered, and CreateLogger *)
(* returned a zap logger.                                                   *)
C10_Witness ==
    /\ ret.op = "CreateLogger"
    /\ defaultProvider = "zap"
    /\ "zap" \in DOMAIN providers /\ providers["zap"] = "zap"
    /\ ret.res.outcome = "logger"
    /\ ret.res.logger.h.backend = "zap"

-----------------------------------------------------------------------------
(* Claims about thresholds and emission, checked under SpecLevel *)

(* C3: on every built-in backend an emission call at level Y on a handle    *)
(* whose threshold is X, set at construction or by SetLevel, writes a       *)
(* record to the sink if and only if Y >= X.                                *)
C3_LevelGating ==
    ret.op = "Emit" => (ret.written <=> ret.level >= ret.threshold)

C8_PanicEmitsBeforeRaising ==
    (ret.op = "Emit" /\ ret.level = PanicLevel) =>
        /\ ret.written
        /\ ret.signal = "panic"

-----------------------------------------------------------------------------
(* Claims about enrichment, checked under SpecEnrich and SpecFields *)

WithOps == {"WithFields", "WithField", "WithContext", "WithError", "WithTime"}

(* C4: a With* call on handle L returns a handle L2 at a new address,       *)
(* leaves L's struct (threshold, slice header, context) and L's bound       *)
(* fields as they were, gives L2 the threshold of L, and leaves what L      *)
(* emits afterwards the same as before the call.                            *)
C4_Step ==
    \A L \in DOMAIN handles, L2 \in DOMAIN handles' :
        (ret'.op \in WithOps /\ ret'.h = L /\ ret'.new = L2) =>
            /\ L2 \notin DOMAIN handles
            /\ handles'[L] = handles[L]
            /\ BoundFields(L)' = BoundFields(L)
            /\ GetLevel(L)' = GetLevel(L)
            /\ GetLevel(L2)' = GetLevel(L)'
            /\ \A level \in Levels, formatted \in BOOLEAN, fs \in CallSiteFields :
                  /\ Emit(L, level, formatted, fs)'.written =
                        Emit(L, level, formatted, fs).written
                  /\ Emit(L, level, formatted, fs)'.record =
                        Emit(L, level, formatted, fs).record

C4_EnrichmentKeepsReceiver == [][C4_Step]_vars

(* The root of a console logger has a derived handle that carries fields,   *)
(* and a record the root wrote afterwards carries only the call's fields.   *)
C4_Witness ==
    /\ ret.op = "Emit" /\ ret.h = 1 /\ ret.written
    /\ handles[1].backend = "console"
    /\ \E L2 \in DOMAIN handles : BoundFields(L2) # <<>>
    /\ BoundFields(1) = <<>>
    /\ ret.record = ret.fields

(* C5: a handle's bound fields are, from its creation on, its parent's      *)
(* bound fields followed by the fields of the With* call that made it;      *)
(* no later call on any handle changes them.                                *)
C5_Step ==
    /\ \A h \in DOMAIN handles : BoundFields(h)' = BoundFields(h)
    /\ \A P \in DOMAIN handles, A \in DOMAIN handles' :
          (ret'.op \in WithOps /\ ret'.h = P /\ ret'.new = A /\ A \notin DOMAIN handles) =>
              BoundFields(A)' = BoundFields(P) \o ret'.fields

C5_DerivedHandlesIndependent == [][C5_Step]_vars

-----------------------------------------------------------------------------
(* Claims about the global accessor, checked under SpecGlobal *)

(* C6: a GetLogger() call returns the instance that is installed, whether   *)
(* an earlier GetLogger() built it or a SetGlobalLogger installed it, and   *)
(* leaves it installed; a free function is forwarded to that instance; and  *)
(* only SetGlobalLogger replaces an installed instance.                     *)
C6_Step ==
    /\ (ret'.op = "GetLogger" /\ globalLogger # NilLogger) =>
          (ret'.res = globalLogger /\ globalLogger' = globalLogger)
    /\ (ret'.op = "Free" /\ globalLogger # NilLogger) =>
          (ret'.target = globalLogger /\ globalLogger' = globalLogger)
    /\ (ret'.op \notin {"GetLogger", "Free", "SetGlobalLogger"}) =>
          globalLogger' = globalLogger
    /\ \A L3 \in DOMAIN handles :
          (ret'.op = "SetGlobalLogger" /\ ret'.logger = L3) => globalLogger' = L3

C6_GlobalAccessorIdentity == [][C6_Step]_vars

-----------------------------------------------------------------------------
(* Claims about configuration maps, checked under SpecRegistry *)

(* C11: in every registry state, CreateLoggerWithConfig(name, {}) with an   *)
(* empty or nil map resolves the provider that CreateLogger(name) resolves  *)
(* and yields a logger of the same backend with the same threshold, format  *)
(* and output target.                                                       *)
C11_ConfigurationFallback ==
    (ret.op = "CreateLoggerWithConfig" /\ DOMAIN ret.config = {}) =>
        \A openOK \in BOOLEAN :
            LET a == ret.res
                b == CreateLogger(ret.name, openOK)
            IN  /\ a.outcome = b.outcome
                /\ a.via = b.via
                /\ a.logger.h.backend = b.logger.h.backend
                /\ a.logger.h.level = b.logger.h.level
                /\ a.logger.s.lib = b.logger.s.lib
                /\ a.logger.s.format = b.logger.s.format
                /\ a.logger.s.out = b.logger.s.out

(* An empty map was resolved to the zap provider, made the default before,  *)
(* and a logger came back.                                                  *)
C11_Witness ==
    /\ ret.op = "CreateLoggerWithConfig" /\ DOMAIN ret.config = {}
    /\ defaultProvider = "zap"
    /\ ret.res.outcome = "logger"
    /\ ret.res.via = "zap"
    /\ ret.res.logger.s.format = "json"

(* The provider CreateLoggerWithConfig is to resolve for a map *)
ConfigProviderName(config) ==
    IF HasString(config, "provider") THEN config["provider"].s ELSE defaultProvider

(* C12: CreateLoggerWithConfig resolves the map's `provider` string, or the *)
(* default name when it is missing or not a string, through the fallback    *)
(* chain; the call returns a logger whenever the resolved provider is one;  *)
(* a missing or wrongly-typed `level` yields threshold Info and a missing   *)
(* or wrongly-typed `outputPath` yields stdout.                             *)
C12_ConfigDefaults ==
    ret.op = "CreateLoggerWithConfig" =>
        LET pn == ConfigProviderName(ret.config)
            via == IF pn \in DOMAIN providers THEN providers[pn]
                   ELSE IF defaultProvider \in DOMAIN providers
                        THEN providers[defaultProvider]
                        ELSE HardCoded
        IN  /\ ret.res.via = via
            /\ via # NilProvider => ret.res.outcome = "logger"
            /\ (ret.res.outcome = "logger" /\ ~HasLevel(ret.config, "level")) =>
                  ret.res.logger.h.level = InfoLevel
            /\ (ret.res.outcome = "logger" /\ ~HasString(ret.config, "outputPath")) =>
                  ret.res.logger.s.out = "stdout"

-----------------------------------------------------------------------------
(* Claims about construction and level queries, checked under SpecOptions   *)
(* and SpecLevel                                                           *)

(* The value an option sequence leaves in a field: that of the last option  *)
(* setting it, the default when none does                                   *)
OptionSetBy(opts, field, default) ==
    LET idx == {i \in DOMAIN opts : opts[i].set = field}
    IN  IF idx = {} THEN default
        ELSE opts[CHOOSE i \in idx : \A j \in idx : j <= i].val

(* C13: on every built-in backend, after any SetLevel calls, Is<Y>Enabled() *)
(* returns true if and only if GetLevel() <= Y, and the call changes no     *)
(* state.                                                                   *)
C13_Step ==
    \A h \in DOMAIN handles, Y \in Levels :
        (ret'.op = "IsEnabled" /\ ret'.h = h /\ ret'.level = Y) =>
            /\ ret'.res <=> (GetLevel(h) <= Y)
            /\ UNCHANGED <<heapVars, registryVars, globalVars, proc>>

C13_EnablementIsThreshold == [][C13_Step]_vars

(* A zap logger built at Error and lowered to Debug by SetLevel answers     *)
(* IsDebugEnabled() with true.                                              *)
C13_Witness ==
    /\ ret.op = "IsEnabled" /\ ret.level = DebugLevel /\ ret.res
    /\ handles[ret.h].backend = "zap"
    /\ GetLevel(ret.h) = DebugLevel
    /\ sinks[handles[ret.h].logger].lib = ZapErrorLevel

(* C17: every built-in constructor starts from threshold Info, format       *)
(* "text" and output "stdout", and each option field ends with the value of *)
(* the last option that sets it, the default when none does.                *)
C17_OptionsAndDefaults ==
    ret.op = "New" =>
        /\ ret.options.Level = OptionSetBy(ret.opts, "Level", InfoLevel)
        /\ ret.options.Format = OptionSetBy(ret.opts, "Format", "text")
        /\ ret.options.OutputPath = OptionSetBy(ret.opts, "OutputPath", "stdout")

(* C17 as amended: the defaults are threshold Info, output "stdout", and    *)
(* format "text" on console, std and logrus but "json" on zap; each option  *)
(* field ends with the value of the last option that sets it, the default   *)
(* when none does; the handle's threshold is the Level field.               *)
C17_OptionsLastWins ==
    ret.op = "New" =>
        /\ ret.options.Level = OptionSetBy(ret.opts, "Level", InfoLevel)
        /\ ret.options.Format =
              OptionSetBy(ret.opts, "Format",
                          IF ret.backend = "zap" THEN "json" ELSE "text")
        /\ ret.options.OutputPath = OptionSetBy(ret.opts, "OutputPath", "stdout")
        /\ GetLevel(1) = ret.options.Level

(* A zap logger built with two different WithLevel options and no format    *)
(* option has the second level and format "json".                           *)
C17_Witness ==
    /\ ret.op = "New" /\ ret.backend = "zap" /\ Len(ret.opts) = 2
    /\ ret.opts[1].set = "Level" /\ ret.opts[2].set = "Level"
    /\ ret.opts[1].val # ret.opts[2].val
    /\ GetLevel(1) = ret.opts[2].val
    /\ ret.options.Format = "json"

(* C18: on every built-in backend, when the output path is not "stdout" and *)
(* cannot be opened, the constructor returns a logger with the configured   *)
(* threshold that writes to standard output.                                *)
C18_SinkOpenErrorsAbsorbed ==
    (ret.op = "New" /\ ret.options.OutputPath # "stdout" /\ ~ret.openOK) =>
        /\ GetLevel(1) = ret.options.Level
        /\ sinks[handles[1].logger].out = "stdout"

(* C20: a handle built with WithLevel(X) reports X, one built with no level *)
(* option reports Info; SetLevel(X) on a handle makes its GetLevel() X, and *)
(* no other call, and no SetLevel on another handle, changes it.            *)
C20_Init ==
    ret.op = "New" => GetLevel(1) = OptionSetBy(ret.opts, "Level", InfoLevel)

C20_Step ==
    \A h \in DOMAIN handles :
        IF ret'.op = "SetLevel" /\ ret'.h = h
        THEN GetLevel(h)' = ret'.level
        ELSE GetLevel(h)' = GetLevel(h)

C20_SetLevelGetLevel == C20_Init /\ [][C20_Step]_vars

(* SetLevel(Panic) on one of two logrus handles: it reports Panic, the      *)
(* other still reports another level.                                       *)
C20_Witness ==
    /\ ret.op = "SetLevel" /\ ret.level = PanicLevel
    /\ handles[ret.h].backend = "logrus"
    /\ GetLevel(ret.h) = PanicLevel
    /\ \E B \in DOMAIN handles : B # ret.h /\ GetLevel(B) # PanicLevel

-----------------------------------------------------------------------------
(* Claims about the fields of emitted records, checked under SpecFields and *)
(* SpecEnrich, and about thresholds of related handles, under SpecLevel     *)

(* C14: on every built-in backend the fields of a record emitted by a       *)
(* non-formatted call are the handle's bound fields in the order in which   *)
(* they were bound, followed by the fields passed to the call.              *)
C14_ChainedEnrichmentOrder ==
    (ret.op = "Emit" /\ ret.written /\ ~ret.formatted) =>
        ret.record = BoundFields(ret.h) \o ret.fields

(* C15: SetLevel on a handle A changes, for no other handle B, its          *)
(* GetLevel() or which levels B writes to the sink, also when B and A are   *)
(* related by a With* call and share a sink.                                *)
C15_Step ==
    \A A \in DOMAIN handles, B \in DOMAIN handles :
        (ret'.op = "SetLevel" /\ ret'.h = A /\ B # A) =>
            /\ GetLevel(B)' = GetLevel(B)
            /\ \A level \in Levels :
                  Emit(B, level, FALSE, <<>>)'.written =
                      Emit(B, level, FALSE, <<>>).written

C15_HandleOwnsThreshold == [][C15_Step]_vars

(* C19: on every built-in backend a formatted call is gated like its        *)
(* non-formatted counterpart, and the record it writes carries no fields,   *)
(* also when the handle has bound fields.                                   *)
C19_FormattedVariants ==
    (ret.op = "Emit" /\ ret.formatted) =>
        /\ ret.written <=> Emit(ret.h, ret.level, FALSE, <<>>).written
        /\ ret.written => ret.record = <<>>

-----------------------------------------------------------------------------
(* Claims about lazy construction, checked under SpecOnce *)

(* C16: with goroutines making their first GetLogFactory() and GetLogger()  *)
(* calls concurrently, one LogFactory and one global logger are built,      *)
(* every call returns that instance, and a registry a caller obtains has    *)
(* the four built-in providers and the default name "console".              *)
C16_LazyConstructionOnce ==
    /\ factory <= 1
    /\ Len(handles) <= 1
    /\ ret.op = "GetLogFactory" =>
          /\ ret.res = 1
          /\ ret.res = factory
          /\ DOMAIN ret.providers = BuiltinProviders
          /\ \A n \in BuiltinProviders : ret.providers[n] = n
          /\ ret.defaultProvider = "console"
    /\ ret.op = "GetLogger" =>
          /\ ret.res = 1
          /\ ret.res = globalLogger
          /\ handles[ret.res].backend = "console"

(* A goroutine was handed the registry while another, holding the mutex of  *)
(* loggerOnce, was still inside the body that builds the global logger.     *)
C16_Witness ==
    /\ ret.op = "GetLogFactory" /\ ret.res = 1
    /\ \E t \in Threads : threads[t].pc = "l_create" /\ onceMutex.logger = t
    /\ factoryOnce /\ ~loggerOnce

-----------------------------------------------------------------------------
(* Claims about the enrichment conventions, checked under SpecEnrich *)

ConventionKeys == {"error", "time"}

(* C21: on every built-in backend WithError(e) and WithTime(t) on handle L  *)
(* yield a handle whose bound fields are L's followed by the one field      *)
(* "error" = e or "time" = t, and every record written by a handle that has *)
(* such a field bound carries it.                                           *)
C21_Step ==
    \A L \in DOMAIN handles :
        /\ (ret'.op \in {"WithError", "WithTime"} /\ ret'.h = L) =>
              /\ Len(ret'.fields) = 1
              /\ ret'.fields[1].Key = (IF ret'.op = "WithError" THEN "error" ELSE "time")
              /\ SliceElems(handles'[Len(handles')].fields, arrays') =
                    BoundFields(L) \o ret'.fields
        /\ (ret'.op = "Emit" /\ ret'.h = L /\ ret'.written) =>
              \A i \in DOMAIN BoundFields(L) :
                  BoundFields(L)[i].Key \in ConventionKeys =>
                      \E j \in DOMAIN ret'.record : ret'.record[j] = BoundFields(L)[i]

C21_EnrichmentConventions == [][C21_Step]_vars

-----------------------------------------------------------------------------
(* Claims about Sync, checked under SpecOptions *)

(* C22: on the console, std and logrus backends every Sync() call returns   *)
(* nil, whatever the handle's threshold and however often it is called, and *)
(* changes no struct, field array or sink; the result of no other call of   *)
(* the Logger contract has an error component.                              *)
C22_Step ==
    /\ \A h \in DOMAIN handles :
          (ret'.op = "Sync" /\ ret'.h = h /\ handles[h].backend # "zap") =>
              /\ ret'.err = "nil"
              /\ handles' = handles /\ arrays' = arrays /\ sinks' = sinks
    /\ (ret'.op = "Sync") => (handles' = handles /\ proc' = proc)
    /\ (ret'.op # "Sync") => "err" \notin DOMAIN ret'

-----------------------------------------------------------------------------
(* Claims about severity rendering, checked under SpecString *)

LevelNames == <<"DEBUG", "INFO", "WARN", "ERROR", "FATAL", "PANIC">>

(* C23: String() maps Debug, Info, Warn, Error, Fatal, Panic, which are the *)
(* values 0..5 in this order, to the six distinct names DEBUG, INFO, WARN,  *)
(* ERROR, FATAL, PANIC, and every other integer, negative ones included,    *)
(* to UNKNOWN.                                                              *)
C23_SeverityRendering ==
    /\ <<DebugLevel, InfoLevel, WarnLevel, ErrorLevel, FatalLevel, PanicLevel>>
          = <<0, 1, 2, 3, 4, 5>>
    /\ \A i, j \in DOMAIN LevelNames : i # j => LevelNames[i] # LevelNames[j]
    /\ ret.op = "String" =>
          IF ret.level \in 0..5
          THEN ret.res = LevelNames[ret.level + 1]
          ELSE ret.res = "UNKNOWN"

(* A negative level was rendered *)
C23_Witness ==
    /\ ret.op = "String"
    /\ ret.level < 0
    /\ ret.res = "UNKNOWN"

-----------------------------------------------------------------------------
(* Claims about the process-wide registry, checked under SpecRegistry *)

RegistryWriters == {"RegisterProvider", "UnregisterProvider", "SetDefaultProvider"}

(* C24: when the first GetLogFactory() call has returned, the registry      *)
(* holds providers under exactly the names console, zap, logrus and std and *)
(* its default name is console; every later GetLogFactory() call returns    *)
(* that same instance, as it is; and the provider map and the default name  *)
(* change in RegisterProvider, UnregisterProvider and SetDefaultProvider    *)
(* calls only.                                                              *)
C24_Init ==
    /\ ret.op = "GetLogFactory"
    /\ factory = 1
    /\ DOMAIN providers = {"console", "zap", "logrus", "std"}
    /\ NilProvider \notin {providers[n] : n \in DOMAIN providers}
    /\ defaultProvider = "console"

C24_Step ==
    /\ ret'.op = "GetLogFactory" => (ret'.res = factory /\ factory' = factory)
    /\ ret'.op \notin RegistryWriters =>
          (providers' = providers /\ defaultProvider' = defaultProvider)

C24_ProcessWideRegistry == C24_Init /\ [][C24_Step]_vars

(* GetLogFactory() returned the registry after the built-in console had     *)
(* been unregistered and another default name set.                          *)
C24_Witness ==
    /\ ret.op = "GetLogFactory" /\ "res" \in DOMAIN ret /\ ret.res = 1
    /\ "console" \notin DOMAIN providers
    /\ defaultProvider = "alt"

-----------------------------------------------------------------------------
(* Claims about the registry under concurrent callers, checked under        *)
(* SpecLocked                                                               *)

(* The places from which a goroutine's next step writes, and reads,         *)
(* providers or defaultProvider                                             *)
WritePlaces == {"w_write", "w_storing"}
ReadPlaces == {"r_read", "p_read1", "p_read2", "c_default"}

(* C25: every write of the provider map and of the default name is made by  *)
(* the goroutine holding f.mu for writing and every read by a goroutine     *)
(* holding it for reading, in every method of the registry; so no read of   *)
(* the default name happens while a SetDefaultProvider store is under way.  *)
C25_AccessesUnderLock ==
    \A t \in DOMAIN threads :
        /\ threads[t].pc \in WritePlaces => mu.writer = t
        /\ threads[t].pc \in ReadPlaces => t \in mu.readers
        /\ threads[t].pc \in ReadPlaces =>
              \A w \in DOMAIN threads : threads[w].pc # "w_storing"

(* What the fallback chain yields for call m(arg) in the registry state     *)
(* with provider map P and default name d                                   *)
ChainIn(P, d, m, arg) ==
    LET pn == IF m = "CreateLoggerWithProvider" THEN arg
              ELSE IF m = "CreateLoggerWithConfig" /\ HasString(arg, "provider")
              THEN arg["provider"].s
              ELSE d
        Make(p) == IF m = "CreateLoggerWithConfig"
                   THEN ProviderCreateWithConfig(p, "svc", arg, TRUE)
                   ELSE ProviderCreate(p, "svc", TRUE)
    IN  IF pn \in DOMAIN P THEN Make(P[pn])
        ELSE IF d \in DOMAIN P THEN Make(P[d])
        ELSE Returned(HardCoded, NewConsoleLogger("svc", <<>>, TRUE))

(* C26: the Logger that CreateLoggerWithProvider or CreateLoggerWithConfig  *)
(* returns while other goroutines register, unregister and set the default  *)
(* is what the fallback chain yields in one of the registry states that     *)
(* existed between the call's start and its return; the hard-coded console  *)
(* fallback is returned only if in one such state both names were absent.   *)
C26_Step ==
    \A t \in DOMAIN threads :
        (/\ threads[t].m \in {"CreateLoggerWithProvider", "CreateLoggerWithConfig"}
         /\ threads[t].pc = "p_create"
         /\ threads'[t].pc = "idle") =>
            \E s \in threads[t].seen :
                ret'.res = ChainIn(s[1], s[2], threads[t].m, threads[t].arg)

C26_ResolutionAtomic == [][C26_Step]_vars

-----------------------------------------------------------------------------
(* Claims about emission and bound fields, checked under SpecFields *)

(* C27: on the console and std backends an emission call on a handle, with  *)
(* any call-site fields or formatted, leaves the bound fields of every      *)
(* handle built from the same root as they were, and with them the fields   *)
(* of the records those handles emit afterwards.                            *)
C27_Step ==
    \A H \in DOMAIN handles, K \in DOMAIN handles :
        (/\ ret'.op = "Emit" /\ ret'.h = H
         /\ handles[H].backend \in {"console", "std"}) =>
            /\ BoundFields(K)' = BoundFields(K)
            /\ Emit(K, InfoLevel, FALSE, <<>>)'.record =
                  Emit(K, InfoLevel, FALSE, <<>>).record

C27_EmissionKeepsBoundFields == [][C27_Step]_vars

(* C28: on every built-in backend a non-formatted emission from a handle    *)
(* built by a chain of one or more WithField/WithFields calls hands the     *)
(* sink the handle's bound fields followed by the call's fields, each bound *)
(* field once.                                                              *)
C28_BoundFieldsOnce ==
    (/\ ret.op = "Emit" /\ ret.written /\ ~ret.formatted
     /\ ret.h # 1) =>
        /\ Len(ret.record) = Len(BoundFields(ret.h)) + Len(ret.fields)
        /\ \A i \in DOMAIN BoundFields(ret.h) : ret.record[i] = BoundFields(ret.h)[i]
        /\ \A j \in DOMAIN ret.fields :
              ret.record[Len(BoundFields(ret.h)) + j] = ret.fields[j]

-----------------------------------------------------------------------------
(* Claims about the global logger under concurrent callers, checked under   *)
(* SpecTorn                                                                 *)

(* C29: a GetLogger() that runs while another goroutine runs                *)
(* SetGlobalLogger(new) returns the complete old logger or the complete new *)
(* one: the dynamic type of the value returned is the type of the struct    *)
(* its pointer refers to.                                                   *)
C29_NeverTorn ==
    ret.op = "GetLogger" =>
        /\ ret.res.data \in DOMAIN handles
        /\ ret.res = Iface(ret.res.data)

-----------------------------------------------------------------------------
(* Claims about the gin middleware, checked under SpecGin *)

(* The calls of a request that are emission calls of the given kind *)
CallsOf(kind) == {i \in DOMAIN ret.calls : ret.calls[i].kind = kind}

(* One access call, made last, after the handler has finished, at the level *)
(* of the recorded status; one Error call from Recovery, before it, when    *)
(* and only when the handler panicked; no panic leaves the middleware.      *)
GinRecords ==
    /\ Cardinality(CallsOf("access")) = 1
    /\ ret.calls[Len(ret.calls)].kind = "access"
    /\ \E i \in CallsOf("handler") : i < Len(ret.calls)
    /\ ret.calls[Len(ret.calls)].level =
          (IF ret.status \in 500..599 THEN ErrorLevel
           ELSE IF ret.status \in 400..499 THEN WarnLevel
           ELSE InfoLevel)
    /\ Cardinality(CallsOf("recovery")) = (IF ret.handler.panics THEN 1 ELSE 0)
    /\ \A i \in CallsOf("recovery") : ret.calls[i].level = ErrorLevel
    /\ ~ret.propagated

====
